---- MODULE Spec2Model ----
(***************************************************************************)
(* Sector earnings aggregation and growth (streamlit_app/aggregation.py)   *)
(* and per-ticker growth (pages/1_Earnings_Surprises.py).                  *)
(*                                                                         *)
(* Representation.                                                         *)
(*   - A Python str is a tuple of one-character strings, so that parsing   *)
(*     and formatting are computed character by character.                 *)
(*   - None (Optional[str]) is the tuple <<"None">>, which is no str.      *)
(*   - A nullable float is a tuple: <<>> is NaN/None, <<n>> is the number  *)
(*     n, and <<n, d>> is the quotient n / d as the code divides it        *)
(*     (d = 0 is the infinite or undefined result of a division by zero).  *)
(*   - A DataFrame is a sequence of records (its rows, in order).          *)
(***************************************************************************)
EXTENDS Integers, Sequences, FiniteSets, TLC

VARIABLES
    raw_financials,   \* long-format fact rows handed to the aggregation
    sector_map,       \* rows of the Sector_Map table
    frequency,        \* "Quarterly" or "Annual"
    period,           \* the selected period (a str)
    level,            \* the sector column: "L1" or "L2"
    pc,               \* which operation has run
    comparison,       \* result of determine_comparison_periods
    shift_offset,     \* offset handed to the period shift
    shifted,          \* result of the period shift
    summary,          \* result of summarise_by_sector
    ticker_growth,    \* per metric, result of _compute_ticker_growth
    unshifted,        \* result of shifting the shifted period back
    reparsed,         \* result of parsing the formatted parse of the period
    period_list,      \* periods handed to sort_periods
    sorted_periods,   \* result of sort_periods
    pivot_result,     \* result of _pivot_financials
    min_base_value,   \* minimum earnings base of the rank tables
    results_per_list, \* rows per rank table (the top_n slider)
    combined_growth,  \* the combined growth frame of the Earnings Surprises page
    best,             \* the best list (Positive Surprises)
    worst,            \* the worst list (Negative Surprises)
    secrets,          \* the configured connection strings (raw_candidates)
    candidate_urls,   \* the URLs get_engine tries, in order
    url_index,        \* the candidate the loop of get_engine is at
    engine_log,       \* what get_engine did to engines, in order
    last_error,       \* the candidate whose exception is last_error (0: None)
    engine_result     \* what get_engine returned or raised

\* results of the further period operations
period_results == <<unshifted, reparsed, period_list, sorted_periods>>

\* inputs and results of the Earnings Surprises page
page_results ==
    <<pivot_result, min_base_value, results_per_list, combined_growth, best, worst>>

\* state of get_engine
engine_state ==
    <<secrets, candidate_urls, url_index, engine_log, last_error, engine_result>>

vars == <<raw_financials, sector_map, frequency, period, level, pc,
          comparison, shift_offset, shifted, summary, ticker_growth,
          period_results, page_results, engine_state>>

-----------------------------------------------------------------------------
(* Bounds of the model *)

\* most fact rows in raw_financials
MaxRows == 3

\* largest |offset| handed to the period shift
MaxOffset == 5

\* most fact rows handed to _pivot_financials on its own
MaxPivotRows == 3

\* most tickers on the Earnings Surprises page
MaxRankTickers == 3

-----------------------------------------------------------------------------
(* Values *)

None == <<"None">>
Null == <<>>
Num(n) == <<n>>
IsNull(x) == Len(x) = 0
NotNa(x) == Len(x) > 0

Truthy(s) == s # None /\ Len(s) > 0

NoResult == [raised |-> "NotRun"]

-----------------------------------------------------------------------------
(* Strings *)

DigitChars == <<"0", "1", "2", "3", "4", "5", "6", "7", "8", "9">>

IsDigit(c) == \E i \in 1..10 : DigitChars[i] = c

DigitVal(c) == (CHOOSE i \in 1..10 : DigitChars[i] = c) - 1

\* int(s) of a non-empty all-digit str
RECURSIVE ToInt(_)
ToInt(s) ==
    IF Len(s) = 0 THEN 0
    ELSE ToInt(SubSeq(s, 1, Len(s) - 1)) * 10 + DigitVal(s[Len(s)])

\* str(n): decimal digits without padding, "-" first when negative
RECURSIVE ToStr(_)
ToStr(n) ==
    IF n < 0 THEN <<"-">> \o ToStr(0 - n)
    ELSE IF n < 10 THEN <<DigitChars[n + 1]>>
    ELSE ToStr(n \div 10) \o <<DigitChars[(n % 10) + 1]>>

\* order of characters in a str comparison (digits before letters)
CharRank(c) == IF IsDigit(c) THEN DigitVal(c) ELSE 10 + (IF c = "Q" THEN 0 ELSE 1)

RECURSIVE StrLess(_, _)
StrLess(s, t) ==
    IF Len(t) = 0 THEN FALSE
    ELSE IF Len(s) = 0 THEN TRUE
    ELSE IF s[1] = t[1] THEN StrLess(Tail(s), Tail(t))
    ELSE CharRank(s[1]) < CharRank(t[1])

-----------------------------------------------------------------------------
(* Period algebra *)

\* mutation of FREQUENCY_CONFIG: the quarterly yoy_offset is the annual one
FREQUENCY_CONFIG_QuarterlyYoy1 ==
    [Quarterly |-> [previous_offset |-> 1, yoy_offset |-> 1, parser |-> "quarter"],
     Annual    |-> [previous_offset |-> 1, yoy_offset |-> 1, parser |-> "year"]]

FREQUENCY_CONFIG ==
    [Quarterly |-> [previous_offset |-> 1, yoy_offset |-> 4, parser |-> "quarter"],
     Annual    |-> [previous_offset |-> 1, yoy_offset |-> 1, parser |-> "year"]]

MinYear == 1900

\* re.fullmatch(r"(\d{4})Q([1-4])", period)
QuarterMatches(p) ==
    /\ Len(p) = 6
    /\ \A i \in 1..4 : IsDigit(p[i])
    /\ p[5] = "Q"
    /\ p[6] \in {"1", "2", "3", "4"}

_parse_quarter(p) ==
    IF QuarterMatches(p)
    THEN [raised |-> "", year |-> ToInt(SubSeq(p, 1, 4)), quarter |-> DigitVal(p[6])]
    ELSE [raised |-> "ValueError", year |-> 0, quarter |-> 0]

_format_quarter(year, quarter) == ToStr(year) \o <<"Q">> \o ToStr(quarter)

\* while quarter <= 0: quarter += 4; year -= 1; if year < 1900: return None
RECURSIVE Borrow(_, _)
Borrow(year, quarter) ==
    IF quarter <= 0
    THEN IF year - 1 < MinYear
         THEN [none |-> TRUE, year |-> year - 1, quarter |-> quarter + 4]
         ELSE Borrow(year - 1, quarter + 4)
    ELSE [none |-> FALSE, year |-> year, quarter |-> quarter]

\* mutation of Carry: the year is not carried
RECURSIVE Carry_KeepYear(_, _)
Carry_KeepYear(year, quarter) ==
    IF quarter > 4 THEN Carry_KeepYear(year, quarter - 4)
    ELSE [year |-> year, quarter |-> quarter]

\* while quarter > 4: quarter -= 4; year += 1
RECURSIVE Carry(_, _)
Carry(year, quarter) ==
    IF quarter > 4 THEN Carry(year + 1, quarter - 4)
    ELSE [year |-> year, quarter |-> quarter]

\* returns [raised, value]: value is a str or None
_shift_quarter(p, offset) ==
    LET parsed == _parse_quarter(p) IN
    IF parsed.raised # "" THEN [raised |-> parsed.raised, value |-> None]
    ELSE LET b == Borrow(parsed.year, parsed.quarter - offset) IN
         IF b.none THEN [raised |-> "", value |-> None]
         ELSE LET c == Carry(b.year, b.quarter) IN
              [raised |-> "", value |-> _format_quarter(c.year, c.quarter)]

\* if not period or not period.isdigit(): raise ValueError
_parse_year(p) ==
    IF Len(p) = 0 \/ \E i \in 1..Len(p) : ~IsDigit(p[i])
    THEN [raised |-> "ValueError", year |-> 0]
    ELSE [raised |-> "", year |-> ToInt(p)]

_format_year(year) == ToStr(year)

_shift_year(p, offset) ==
    LET parsed == _parse_year(p) IN
    IF parsed.raised # "" THEN [raised |-> parsed.raised, value |-> None]
    ELSE LET year == parsed.year - offset IN
         IF year < MinYear THEN [raised |-> "", value |-> None]
         ELSE [raised |-> "", value |-> _format_year(year)]

Shift(freq, p, offset) ==
    IF FREQUENCY_CONFIG[freq].parser = "quarter"
    THEN _shift_quarter(p, offset)
    ELSE _shift_year(p, offset)

\* the first shift that raises ends the call
determine_comparison_periods(freq, current_period) ==
    LET config   == FREQUENCY_CONFIG[freq]
        previous == Shift(freq, current_period, config.previous_offset)
        yoy      == Shift(freq, current_period, config.yoy_offset)
    IN IF previous.raised # ""
       THEN [raised |-> previous.raised, current |-> None, previous |-> None, yoy |-> None]
       ELSE IF yoy.raised # ""
       THEN [raised |-> yoy.raised, current |-> None, previous |-> None, yoy |-> None]
       ELSE [raised |-> "", current |-> current_period,
             previous |-> previous.value, yoy |-> yoy.value]

\* returns [raised, year, quarter]: the (year, quarter) or (year, 0) sort key
_period_sort_key(freq, p) ==
    IF FREQUENCY_CONFIG[freq].parser = "quarter"
    THEN _parse_quarter(p)
    ELSE LET parsed == _parse_year(p) IN
         [raised |-> parsed.raised, year |-> parsed.year, quarter |-> 0]

\* key a comes before key b in the sorted list
KeyBefore(a, b, descending) ==
    LET less == a.year < b.year \/ (a.year = b.year /\ a.quarter < b.quarter)
        more == b.year < a.year \/ (a.year = b.year /\ b.quarter < a.quarter)
    IN IF descending THEN more ELSE less

\* sorted(periods, key=..., reverse=descending): stable in both directions;
\* returns [raised, value]
sort_periods(periods, freq, descending) ==
    LET key == [i \in 1..Len(periods) |-> _period_sort_key(freq, periods[i])]
        place(i) == 1 + Cardinality({j \in 1..Len(periods) :
                          \/ KeyBefore(key[j], key[i], descending)
                          \/ (j < i /\ ~KeyBefore(key[i], key[j], descending))})
    IN IF \E i \in 1..Len(periods) : key[i].raised # ""
       THEN [raised |-> "ValueError", value |-> <<>>]
       ELSE [raised |-> "",
             value |-> [k \in 1..Len(periods) |->
                          periods[CHOOSE i \in 1..Len(periods) : place(i) = k]]]

\* the period string of a sort key, by the formatter of the frequency
FormatKey(freq, key) ==
    IF FREQUENCY_CONFIG[freq].parser = "quarter"
    THEN _format_quarter(key.year, key.quarter)
    ELSE _format_year(key.year)

\* parse, format and parse again
Reparse(freq, p) ==
    LET first == _period_sort_key(freq, p) IN
    IF first.raised # "" THEN first
    ELSE _period_sort_key(freq, FormatKey(freq, first))

-----------------------------------------------------------------------------
(* Tables *)

SeqToSet(s) == {s[i] : i \in 1..Len(s)}

\* order of the ticker and sector names in a str comparison
NameOrder == <<"ABC", "Hardware", "MNO", "PQR", "Software", "Tech", "XYZ">>

NameRank(n) == CHOOSE i \in 1..Len(NameOrder) : NameOrder[i] = n

NameLess(a, b) == NameRank(a) < NameRank(b)

\* a set of names in ascending order, as groupby orders its group keys
SortNames(S) ==
    [i \in 1..Cardinality(S) |->
       CHOOSE x \in S : Cardinality({y \in S : NameLess(y, x)}) = i - 1]

\* a null Ticker of the Sector_Map table
NullName == "<NA>"

METRIC_CONFIG ==
    << <<"Revenue", "Net_Revenue">>,
       <<"Gross Profit", "Gross_Profit">>,
       <<"EBITDA", "EBITDA">>,
       <<"EBIT", "EBIT">>,
       <<"NPATMI", "NPATMI">> >>

metric_labels == [i \in 1..Len(METRIC_CONFIG) |-> METRIC_CONFIG[i][1]]

metric_keycodes == [i \in 1..Len(METRIC_CONFIG) |-> METRIC_CONFIG[i][2]]

MetricSet == SeqToSet(metric_labels)

KeycodeOf(label) ==
    METRIC_CONFIG[CHOOSE i \in 1..Len(METRIC_CONFIG) : METRIC_CONFIG[i][1] = label][2]

\* Series.sum(min_count=1) of a sequence of nullable floats
RECURSIVE SumNotNa(_)
SumNotNa(xs) ==
    IF Len(xs) = 0 THEN 0
    ELSE (IF NotNa(xs[1]) THEN xs[1][1] ELSE 0) + SumNotNa(Tail(xs))

\* mutation of SumMinCount1: min_count=1 is missing, an all-null group sums to 0
SumMinCount1_MinCount0(xs) == Num(SumNotNa(xs))

SumMinCount1(xs) ==
    IF \A i \in 1..Len(xs) : IsNull(xs[i]) THEN Null ELSE Num(SumNotNa(xs))

\* float arithmetic: NaN propagates, a zero divisor gives a non-finite quotient
Sub(a, b) == IF IsNull(a) \/ IsNull(b) THEN Null ELSE Num(a[1] - b[1])

Div(a, b) == IF IsNull(a) \/ IsNull(b) THEN Null ELSE <<a[1], b[1]>>

IsFinite(q) == Len(q) = 2 => q[2] # 0

Abs(n) == IF n < 0 THEN 0 - n ELSE n

RECURSIVE GCD(_, _)
GCD(a, b) == IF b = 0 THEN a ELSE GCD(b, a % b)

\* the same quotient in lowest terms (a float holds the value, not the terms)
Reduce(q) ==
    LET g == GCD(Abs(q[1]), Abs(q[2]))
    IN IF g = 0 THEN q ELSE <<q[1] \div g, q[2] \div g>>

-----------------------------------------------------------------------------
(* Fact pivot *)

PivotKey(r) ==
    [Ticker |-> r.Ticker, PERIOD |-> r.PERIOD, Sector |-> r.Sector, L1 |-> r.L1, L2 |-> r.L2]

PivotKeyLess(a, b) ==
    IF a.Ticker # b.Ticker THEN NameLess(a.Ticker, b.Ticker)
    ELSE IF a.PERIOD # b.PERIOD THEN StrLess(a.PERIOD, b.PERIOD)
    ELSE IF a.Sector # b.Sector THEN NameLess(a.Sector, b.Sector)
    ELSE IF a.L1 # b.L1 THEN NameLess(a.L1, b.L1)
    ELSE IF a.L2 # b.L2 THEN NameLess(a.L2, b.L2)
    ELSE FALSE

\* a set of index keys in ascending order, as pivot_table orders its index
SortKeys(S) ==
    [i \in 1..Cardinality(S) |->
       CHOOSE x \in S : Cardinality({y \in S : PivotKeyLess(y, x)}) = i - 1]

\* aggfunc="first": GroupBy.first, the first value of the group that is not null
FirstValue(raw, key, keycode) ==
    LET hits == SelectSeq(raw, LAMBDA r : PivotKey(r) = key /\ r.KEYCODE = keycode
                                          /\ NotNa(r.VALUE))
    IN IF Len(hits) = 0 THEN Null ELSE hits[1].VALUE

\* no index column of the row is null (the groupby of pivot_table drops such rows)
KeyNotNull(r) == NullName \notin {r.Ticker, r.Sector, r.L1, r.L2}

\* pivot_table groups the rows by (key, KEYCODE) without the rows of a null index
\* column, drops (dropna=True) a group whose value is null before it unstacks,
\* and sorts the keys
_pivot_financials(raw) ==
    LET keys == {PivotKey(raw[i]) :
                   i \in {j \in 1..Len(raw) : NotNa(raw[j].VALUE) /\ KeyNotNull(raw[j])}}
        order == SortKeys(keys)
    IN [i \in 1..Len(order) |->
          [Ticker |-> order[i].Ticker, PERIOD |-> order[i].PERIOD,
           Sector |-> order[i].Sector, L1 |-> order[i].L1, L2 |-> order[i].L2,
           metrics |-> [m \in MetricSet |-> FirstValue(raw, order[i], KeycodeOf(m))]]]

-----------------------------------------------------------------------------
(* Cohort aggregation *)

Column(rows, m) == [i \in 1..Len(rows) |-> rows[i].metrics[m]]

\* groupby(sector_column, dropna=False)[metric_cols].sum(min_count=1).reset_index()
GroupSum(rows, sector_column) ==
    LET labels == SortNames({rows[i][sector_column] : i \in 1..Len(rows)})
    IN [k \in 1..Len(labels) |->
          LET members == SelectSeq(rows, LAMBDA r : r[sector_column] = labels[k])
          IN [label |-> labels[k],
              metrics |-> [m \in MetricSet |-> SumMinCount1(Column(members, m))]]]

\* mutation of PeriodRows: the rows are not restricted to the tickers
PeriodRows_AllTickers(pivoted, p, tickers) ==
    SelectSeq(pivoted, LAMBDA r : r.PERIOD = p)

\* pivoted_df[(PERIOD == period) & Ticker.isin(tickers)]
PeriodRows(pivoted, p, tickers) ==
    SelectSeq(pivoted, LAMBDA r : r.PERIOD = p /\ r.Ticker \in tickers)

_aggregate_period(pivoted, p, sector_column, tickers) ==
    IF ~Truthy(p) THEN <<>>
    ELSE GroupSum(PeriodRows(pivoted, p, tickers), sector_column)

\* the row of a summary frame with this label, as a set of at most one row
RowsOf(frame, label) == {frame[i] : i \in {j \in 1..Len(frame) : frame[j].label = label}}

\* comparison_value of one sector and metric after the reindex on the current sectors
ComparisonValue(comparison_df, label, m) ==
    IF RowsOf(comparison_df, label) = {} THEN Null
    ELSE (CHOOSE r \in RowsOf(comparison_df, label) : TRUE).metrics[m]

\* mutation of GrowthOf: the comparison == 0 test is missing
GrowthOf_NoZeroGuard(current_value, comparison_value) ==
    IF IsNull(comparison_value) THEN Null
    ELSE Div(Sub(current_value, comparison_value), comparison_value)

GrowthOf(current_value, comparison_value) ==
    IF IsNull(comparison_value) \/ comparison_value = Num(0) THEN Null
    ELSE Div(Sub(current_value, comparison_value), comparison_value)

\* one record per sector of current_df, keyed by label
_compute_growth(current_df, comparison_df) ==
    [k \in 1..Len(current_df) |->
       [label |-> current_df[k].label,
        growth |-> [m \in MetricSet |->
                      GrowthOf(current_df[k].metrics[m],
                               ComparisonValue(comparison_df, current_df[k].label, m))]]]

\* Series.nunique(): distinct values that are not null
NUnique(names) == Cardinality(names \ {NullName})

_sum_metrics(frame) == [m \in MetricSet |-> SumMinCount1(Column(frame, m))]

\* mutation of TotalGrowth: the operands of the difference are swapped
TotalGrowth_Swapped(current_value, comparison_value) ==
    IF NotNa(current_value) /\ NotNa(comparison_value) /\ comparison_value # Num(0)
    THEN Div(Sub(comparison_value, current_value), comparison_value)
    ELSE Null

TotalGrowth(current_value, comparison_value) ==
    IF NotNa(current_value) /\ NotNa(comparison_value) /\ comparison_value # Num(0)
    THEN Div(Sub(current_value, comparison_value), comparison_value)
    ELSE Null

\* sector_map.groupby(sector_column)["Ticker"].nunique(): null when the map has no
\* row of that sector (the left merge finds no match)
TotalCompanies(map, sector_column, label) ==
    IF \E r \in map : r[sector_column] = label
    THEN Num(NUnique({r.Ticker : r \in {x \in map : x[sector_column] = label}}))
    ELSE Null

\* mutation of CoveragePct: replace({0: np.nan}) is missing
CoveragePct_NoReplace(released, total) == Div(released, total)

\* released_companies.astype(float) / total_companies.replace({0: np.nan})
CoveragePct(released, total) ==
    Div(released, IF total = Num(0) THEN Null ELSE total)

\* (total_released / total_universe) if total_universe else np.nan
TotalCoveragePct(total_released, total_universe) ==
    IF total_universe # 0 THEN Div(Num(total_released), Num(total_universe)) ELSE Null

\* mutation of ReleasedMask: all(axis=1) instead of any(axis=1)
ReleasedMask_All(r) == \A m \in MetricSet : NotNa(r.metrics[m])

\* current_period_df[metric_cols].notna().any(axis=1)
ReleasedMask(r) == \E m \in MetricSet : NotNa(r.metrics[m])

\* mutation of TotalRow: released_companies and total_companies are swapped
TotalRow_SwappedCounts(current_summary, previous_summary, yoy_summary, total_released, total_universe) ==
    LET totals_metrics  == _sum_metrics(current_summary)
        totals_previous == _sum_metrics(previous_summary)
        totals_yoy      == _sum_metrics(yoy_summary)
    IN [label |-> "Total",
        metrics |-> totals_metrics,
        QoQ |-> [m \in MetricSet |-> TotalGrowth(totals_metrics[m], totals_previous[m])],
        YoY |-> [m \in MetricSet |-> TotalGrowth(totals_metrics[m], totals_yoy[m])],
        released_companies |-> Num(total_universe),
        total_companies |-> Num(total_released),
        coverage_pct |-> TotalCoveragePct(total_released, total_universe)]

TotalRow(current_summary, previous_summary, yoy_summary, total_released, total_universe) ==
    LET totals_metrics  == _sum_metrics(current_summary)
        totals_previous == _sum_metrics(previous_summary)
        totals_yoy      == _sum_metrics(yoy_summary)
    IN [label |-> "Total",
        metrics |-> totals_metrics,
        QoQ |-> [m \in MetricSet |-> TotalGrowth(totals_metrics[m], totals_previous[m])],
        YoY |-> [m \in MetricSet |-> TotalGrowth(totals_metrics[m], totals_yoy[m])],
        released_companies |-> Num(total_released),
        total_companies |-> Num(total_universe),
        coverage_pct |-> TotalCoveragePct(total_released, total_universe)]

\* mutation of PrependTotal: the Total row is appended
PrependTotal_Append(total_row, output) == output \o <<total_row>>

\* pd.concat([total_df, output]): the Total row first
PrependTotal(total_row, output) == <<total_row>> \o output

\* int(sector_map["Ticker"].nunique()) if not sector_map.empty else 0
UniverseCount(map) == IF map # {} THEN NUnique({r.Ticker : r \in map}) ELSE 0

\* mutation of EmptySummary: total_count is 0 like released_count
EmptySummary_ZeroTotal(map) ==
    [raised |-> "", data |-> <<>>, released_count |-> 0, total_count |-> 0,
     released_tickers |-> {}, current_summary |-> <<>>,
     previous_summary |-> <<>>, yoy_summary |-> <<>>]

\* the return for a period without rows; the last four fields are the locals
\* released_tickers, current_summary, previous_summary and yoy_summary
EmptySummary(map) ==
    [raised |-> "", data |-> <<>>, released_count |-> 0,
     total_count |-> UniverseCount(map),
     released_tickers |-> {}, current_summary |-> <<>>,
     previous_summary |-> <<>>, yoy_summary |-> <<>>]

summarise_by_sector(raw, map, freq, p, sector_column) ==
    LET pivoted == _pivot_financials(raw)
        current_period_df == SelectSeq(pivoted, LAMBDA r : r.PERIOD = p)
        total_count == UniverseCount(map)
    IN IF Len(current_period_df) = 0
       THEN EmptySummary(map)
       ELSE
       LET released_df == SelectSeq(current_period_df, ReleasedMask)
           released_tickers == {released_df[i].Ticker : i \in 1..Len(released_df)}
           current_summary == GroupSum(released_df, sector_column)
           comparison_periods == determine_comparison_periods(freq, p)
       IN IF comparison_periods.raised # ""
          THEN [raised |-> comparison_periods.raised, data |-> <<>>, released_count |-> 0,
                total_count |-> 0, released_tickers |-> {}, current_summary |-> <<>>,
                previous_summary |-> <<>>, yoy_summary |-> <<>>]
          ELSE
          LET previous_summary == _aggregate_period(pivoted, comparison_periods.previous,
                                                    sector_column, released_tickers)
              yoy_summary == _aggregate_period(pivoted, comparison_periods.yoy,
                                               sector_column, released_tickers)
              qoq_growth == _compute_growth(current_summary, previous_summary)
              yoy_growth == _compute_growth(current_summary, yoy_summary)
              output ==
                [k \in 1..Len(current_summary) |->
                   LET label == current_summary[k].label
                       released == Num(Cardinality(
                           {released_df[i].Ticker :
                              i \in {j \in 1..Len(released_df) :
                                       released_df[j][sector_column] = label}}))
                       total == TotalCompanies(map, sector_column, label)
                   IN [label |-> label,
                       metrics |-> current_summary[k].metrics,
                       QoQ |-> qoq_growth[k].growth,
                       YoY |-> yoy_growth[k].growth,
                       released_companies |-> released,
                       total_companies |-> total,
                       coverage_pct |-> CoveragePct(released, total)]]
              total_row == TotalRow(current_summary, previous_summary, yoy_summary,
                                    Cardinality(released_tickers), total_count)
          IN [raised |-> "", data |-> PrependTotal(total_row, output),
              released_count |-> Cardinality(released_tickers),
              total_count |-> total_count,
              released_tickers |-> released_tickers,
              current_summary |-> current_summary,
              previous_summary |-> previous_summary,
              yoy_summary |-> yoy_summary]

-----------------------------------------------------------------------------
(* Per-ticker growth *)

\* (a / b) < (c / d) and (a / b) = (c / d) for quotients with b, d # 0
QuotLess(x, y) ==
    LET cross == x[1] * y[2] - y[1] * x[2]
    IN IF (x[2] < 0) = (y[2] < 0) THEN cross < 0 ELSE cross > 0

QuotEq(x, y) == x[1] * y[2] = y[1] * x[2]

\* current.merge(right, on="Ticker", how="left"): one row per match, or one row
\* with a null value when the ticker has no row on the right
RECURSIVE MergeLeft(_, _, _, _)
MergeLeft(left, right, m, field) ==
    IF Len(left) = 0 THEN <<>>
    ELSE LET hits == SelectSeq(right, LAMBDA r : r.Ticker = left[1].Ticker)
             rows == IF Len(hits) = 0
                     THEN << [left[1] EXCEPT ![field] = Null] >>
                     ELSE [i \in 1..Len(hits) |->
                             [left[1] EXCEPT ![field] = hits[i].metrics[m]]]
         IN rows \o MergeLeft(Tail(left), right, m, field)

\* growth = (curr - base) / base; growth[base.isna() | (base == 0)] = np.nan
_growth(curr, base) ==
    IF IsNull(base) \/ base = Num(0) THEN Null
    ELSE Div(Sub(curr, base), base)

\* mutation of PctRank: the rank is descending
PctRank_Descending(rows, field, i) ==
    IF IsNull(rows[i][field]) THEN Null
    ELSE LET valid == {j \in 1..Len(rows) : NotNa(rows[j][field])}
             more  == Cardinality({j \in valid : QuotLess(rows[i][field], rows[j][field])})
             equal == Cardinality({j \in valid : QuotEq(rows[j][field], rows[i][field])})
         IN <<2 * more + equal + 1, 2 * Cardinality(valid)>>

\* Series.rank(ascending=True, method="average", pct=True) of row i
PctRank(rows, field, i) ==
    IF IsNull(rows[i][field]) THEN Null
    ELSE LET valid == {j \in 1..Len(rows) : NotNa(rows[j][field])}
             less  == Cardinality({j \in valid : QuotLess(rows[j][field], rows[i][field])})
             equal == Cardinality({j \in valid : QuotEq(rows[j][field], rows[i][field])})
         IN <<2 * less + equal + 1, 2 * Cardinality(valid)>>

\* np.nanmean of the two ranks of a row
NanMean(a, b) ==
    IF IsNull(a) THEN b
    ELSE IF IsNull(b) THEN a
    ELSE Reduce(<<a[1] * b[2] + b[1] * a[2], 2 * a[2] * b[2]>>)

_compute_ticker_growth(pivoted, metric, p, previous, yoy) ==
    LET in_period == SelectSeq(pivoted, LAMBDA r : r.PERIOD = p /\ NotNa(r.metrics[metric]))
        current == [i \in 1..Len(in_period) |->
                      [Ticker |-> in_period[i].Ticker, Sector |-> in_period[i].Sector,
                       L1 |-> in_period[i].L1, L2 |-> in_period[i].L2,
                       current_value |-> in_period[i].metrics[metric],
                       prev_value |-> Null, yoy_value |-> Null]]
        with_prev == IF Truthy(previous)
                     THEN MergeLeft(current, SelectSeq(pivoted, LAMBDA r : r.PERIOD = previous),
                                    metric, "prev_value")
                     ELSE current
        with_yoy == IF Truthy(yoy)
                    THEN MergeLeft(with_prev, SelectSeq(pivoted, LAMBDA r : r.PERIOD = yoy),
                                   metric, "yoy_value")
                    ELSE with_prev
        grown == [i \in 1..Len(with_yoy) |->
                    [Ticker |-> with_yoy[i].Ticker, Sector |-> with_yoy[i].Sector,
                     L1 |-> with_yoy[i].L1, L2 |-> with_yoy[i].L2,
                     current_value |-> with_yoy[i].current_value,
                     prev_value |-> with_yoy[i].prev_value,
                     yoy_value |-> with_yoy[i].yoy_value,
                     qoq_growth |-> _growth(with_yoy[i].current_value, with_yoy[i].prev_value),
                     yoy_growth |-> _growth(with_yoy[i].current_value, with_yoy[i].yoy_value)]]
    IN [i \in 1..Len(grown) |->
          LET qoq_rank == PctRank(grown, "qoq_growth", i)
              yoy_rank == PctRank(grown, "yoy_growth", i)
          IN [Ticker |-> grown[i].Ticker, Sector |-> grown[i].Sector,
              L1 |-> grown[i].L1, L2 |-> grown[i].L2,
              current_value |-> grown[i].current_value,
              prev_value |-> grown[i].prev_value,
              yoy_value |-> grown[i].yoy_value,
              qoq_growth |-> grown[i].qoq_growth,
              yoy_growth |-> grown[i].yoy_growth,
              qoq_rank |-> qoq_rank,
              yoy_rank |-> yoy_rank,
              metric_score |-> NanMean(qoq_rank, yoy_rank)]]

-----------------------------------------------------------------------------
(* Earnings Surprises page *)

\* the growth frame of every metric, in the order of metric_labels (an empty
\* frame is skipped by the page and adds no row and no column)
MetricFrames(pivoted, p, previous, yoy) ==
    [k \in 1..Len(metric_labels) |->
       _compute_ticker_growth(pivoted, metric_labels[k], p, previous, yoy)]

\* the tickers of the frames, one frame after the other
RECURSIVE FrameTickers(_)
FrameTickers(frames) ==
    IF Len(frames) = 0 THEN <<>>
    ELSE [i \in 1..Len(frames[1]) |-> frames[1][i].Ticker] \o FrameTickers(Tail(frames))

\* the union index of pd.concat(axis=1, join="outer"): first appearance
RECURSIVE FirstSeen(_)
FirstSeen(names) ==
    IF Len(names) = 0 THEN <<>>
    ELSE LET rest == FirstSeen(SubSeq(names, 1, Len(names) - 1))
         IN IF names[Len(names)] \in SeqToSet(rest) THEN rest
            ELSE Append(rest, names[Len(names)])

\* the cell of a ticker in a frame, null when the frame has no row of it
FrameValue(frame, ticker, field) ==
    LET hits == SelectSeq(frame, LAMBDA r : r.Ticker = ticker)
    IN IF Len(hits) = 0 THEN Null ELSE hits[1][field]

\* the sum of the quotients that are not null
RECURSIVE SumQuot(_)
SumQuot(qs) ==
    IF Len(qs) = 0 THEN <<0, 1>>
    ELSE LET rest == SumQuot(Tail(qs))
         IN IF IsNull(qs[1]) THEN rest
            ELSE Reduce(<<qs[1][1] * rest[2] + rest[1] * qs[1][2], qs[1][2] * rest[2]>>)

\* DataFrame.mean(axis=1, skipna=True) of one row
MeanSkipNa(qs) ==
    LET n == Len(SelectSeq(qs, NotNa))
    IN IF n = 0 THEN Null ELSE Reduce(<<SumQuot(qs)[1], SumQuot(qs)[2] * n>>)

\* DataFrame.abs().max(axis=1, skipna=True) of one row
AbsMaxSkipNa(xs) ==
    LET vals == {Abs(xs[i][1]) : i \in {j \in 1..Len(xs) : NotNa(xs[j])}}
    IN IF vals = {} THEN Null ELSE Num(CHOOSE v \in vals : \A w \in vals : w <= v)

\* the Sector and L2 the left merge with sector_info gives a ticker
SectorInfo(map, ticker) ==
    LET hits == {r \in map : r.Ticker = ticker}
    IN IF hits = {} THEN [Sector |-> NullName, L2 |-> NullName]
       ELSE LET r == CHOOSE x \in hits : TRUE IN [Sector |-> r.Sector, L2 |-> r.L2]

\* main: the metric frames side by side, the sector labels, combined_score and
\* base_value; the cells of a metric are sequences in the order of metric_labels
CombinedGrowth(frames, map) ==
    LET index == FirstSeen(FrameTickers(frames))
        cells(t, field) == [k \in 1..Len(metric_labels) |-> FrameValue(frames[k], t, field)]
        rows == [i \in 1..Len(index) |->
                   [Ticker |-> index[i],
                    Sector |-> SectorInfo(map, index[i]).Sector,
                    L2 |-> SectorInfo(map, index[i]).L2,
                    current |-> cells(index[i], "current_value"),
                    qoq |-> cells(index[i], "qoq_growth"),
                    yoy |-> cells(index[i], "yoy_growth"),
                    score |-> cells(index[i], "metric_score"),
                    combined_score |-> MeanSkipNa(cells(index[i], "metric_score")),
                    base_value |-> AbsMaxSkipNa(cells(index[i], "current_value"))]]
    IN SelectSeq(rows, LAMBDA r : \E k \in 1..Len(metric_labels) : NotNa(r.current[k]))

MetricIndex(label) == CHOOSE k \in 1..Len(metric_labels) : metric_labels[k] = label

\* mutation of Eligible: the base filter is missing
Eligible_NoBaseFilter(r, min_base) ==
    /\ NotNa(r.base_value)
    /\ NotNa(r.combined_score)

\* table["base_value"].notna(), >= min_base, table["combined_score"].notna()
Eligible(r, min_base) ==
    /\ NotNa(r.base_value)
    /\ r.base_value[1] >= min_base
    /\ NotNa(r.combined_score)

\* mutation of ScoreBefore: the direction of the list is ignored
ScoreBefore_Ascending(a, b, ascending) == QuotLess(a, b)

\* the first sort key: combined_score in the direction of the list
ScoreBefore(a, b, ascending) == IF ascending THEN QuotLess(a, b) ELSE QuotLess(b, a)

\* a descending sort key, nulls last
DescBefore(a, b) == NotNa(a) /\ (IsNull(b) \/ b[1] < a[1])

SameValue(a, b) == (IsNull(a) /\ IsNull(b)) \/ (NotNa(a) /\ NotNa(b) /\ a[1] = b[1])

\* row r sorts before row s by combined_score, base_value, Revenue_current and
\* NPATMI_current (the last three descending)
RowBefore(r, s, ascending) ==
    LET revenue == MetricIndex("Revenue")
        npatmi  == MetricIndex("NPATMI")
    IN \/ ScoreBefore(r.combined_score, s.combined_score, ascending)
       \/ /\ QuotEq(r.combined_score, s.combined_score)
          /\ \/ DescBefore(r.base_value, s.base_value)
             \/ /\ SameValue(r.base_value, s.base_value)
                /\ \/ DescBefore(r.current[revenue], s.current[revenue])
                   \/ /\ SameValue(r.current[revenue], s.current[revenue])
                      /\ DescBefore(r.current[npatmi], s.current[npatmi])

\* sort_values(kind="mergesort"): rows that no key separates keep their order
StableSort(table, ascending) ==
    LET place(i) == 1 + Cardinality({j \in 1..Len(table) :
                          \/ RowBefore(table[j], table[i], ascending)
                          \/ (j < i /\ ~RowBefore(table[i], table[j], ascending))})
    IN [k \in 1..Len(table) |-> table[CHOOSE i \in 1..Len(table) : place(i) = k]]

\* DataFrame.head(n) for n >= 0
HeadRows(table, n) == SubSeq(table, 1, IF n < Len(table) THEN n ELSE Len(table))

Billion == 1000000000

\* a value in bn VND, and a growth in percent
InBillions(x) == IF IsNull(x) THEN Null ELSE <<x[1], Billion>>

InPercent(q) == IF IsNull(q) THEN Null ELSE <<q[1] * 100, q[2]>>

\* the display columns of a row
DisplayRow(r) ==
    LET revenue == MetricIndex("Revenue")
        npatmi  == MetricIndex("NPATMI")
    IN [Ticker |-> r.Ticker, Sector |-> r.Sector, L2 |-> r.L2,
        Revenue_bn |-> InBillions(r.current[revenue]),
        Revenue_QoQ_pct |-> InPercent(r.qoq[revenue]),
        Revenue_YoY_pct |-> InPercent(r.yoy[revenue]),
        NPATMI_bn |-> InBillions(r.current[npatmi]),
        NPATMI_QoQ_pct |-> InPercent(r.qoq[npatmi]),
        NPATMI_YoY_pct |-> InPercent(r.yoy[npatmi])]

_prepare_rank_table(df, top_n, ascending, min_base) ==
    LET table == SelectSeq(df, LAMBDA r : Eligible(r, min_base))
        ranked == HeadRows(StableSort(table, ascending), top_n)
    IN [i \in 1..Len(ranked) |-> DisplayRow(ranked[i])]

-----------------------------------------------------------------------------
(* Inputs of the aggregation *)

P2023Q1 == <<"2", "0", "2", "3", "Q", "1">>
P2022Q4 == <<"2", "0", "2", "2", "Q", "4">>
P2022Q1 == <<"2", "0", "2", "2", "Q", "1">>

FactTickers == <<"ABC", "XYZ">>
FactPeriods == <<P2023Q1, P2022Q4, P2022Q1>>
FactKeycodes == <<"Net_Revenue", "NPATMI">>

\* the (Ticker, PERIOD, KEYCODE) of the fact rows, in the order of the rows
FactCells ==
    [i \in 1..(Len(FactTickers) * Len(FactPeriods) * Len(FactKeycodes)) |->
       [Ticker  |-> FactTickers[((i - 1) \div (Len(FactPeriods) * Len(FactKeycodes))) + 1],
        PERIOD  |-> FactPeriods[(((i - 1) \div Len(FactKeycodes)) % Len(FactPeriods)) + 1],
        KEYCODE |-> FactKeycodes[((i - 1) % Len(FactKeycodes)) + 1]]]

\* the amount reported for a period
PeriodAmount(p) ==
    IF p = P2023Q1 THEN Num(100) ELSE IF p = P2022Q4 THEN Num(80) ELSE Num(50)

\* VALUE of a fact row: a Net_Revenue row may also hold null or zero
FactValues(cell) ==
    IF cell.KEYCODE = "Net_Revenue"
    THEN {Null, Num(0), PeriodAmount(cell.PERIOD)}
    ELSE {PeriodAmount(cell.PERIOD)}

\* the Sector_Map row the fetch joins to each fact row
SectorPath(ticker) ==
    IF ticker = "ABC"
    THEN [Sector |-> "Tech", L1 |-> "Tech", L2 |-> "Software"]
    ELSE [Sector |-> "Tech", L1 |-> "Tech", L2 |-> "Hardware"]

FactRow(cell, value) ==
    [Ticker |-> cell.Ticker, PERIOD |-> cell.PERIOD, KEYCODE |-> cell.KEYCODE,
     VALUE |-> value, Sector |-> SectorPath(cell.Ticker).Sector,
     L1 |-> SectorPath(cell.Ticker).L1, L2 |-> SectorPath(cell.Ticker).L2]

\* the fact tables of at most MaxRows rows, one row per chosen cell
FactTables ==
    UNION {
      {[k \in 1..Cardinality(S) |->
          LET i == CHOOSE x \in S : Cardinality({y \in S : y < x}) = k - 1
          IN FactRow(FactCells[i], v[i])] :
         v \in {f \in [S -> {Null, Num(0), Num(50), Num(80), Num(100)}] :
                  \A i \in S : f[i] \in FactValues(FactCells[i])}} :
      S \in {T \in SUBSET (1..Len(FactCells)) : Cardinality(T) <= MaxRows}}

SectorMapRows ==
    {[Ticker |-> "ABC", Sector |-> "Tech", L1 |-> "Tech", L2 |-> "Software"],
     [Ticker |-> "XYZ", Sector |-> "Tech", L1 |-> "Tech", L2 |-> "Hardware"],
     [Ticker |-> NullName, Sector |-> "Tech", L1 |-> "Tech", L2 |-> "Hardware"]}

Levels == {"L1", "L2"}

\* the Sector_Map rows the fetch joins to the fact rows of the pivot inputs: one
\* of ABC, and of XYZ one with an L2 and one whose L2 is null
PivotPaths ==
    {[Ticker |-> "ABC", Sector |-> "Tech", L1 |-> "Tech", L2 |-> "Software"],
     [Ticker |-> "XYZ", Sector |-> "Tech", L1 |-> "Tech", L2 |-> "Hardware"],
     [Ticker |-> "XYZ", Sector |-> "Tech", L1 |-> "Tech", L2 |-> NullName]}

\* fact rows of one period; a (key, KEYCODE) may occur in several rows
PivotRows ==
    {[Ticker |-> path.Ticker, PERIOD |-> P2023Q1, KEYCODE |-> keycode, VALUE |-> value,
      Sector |-> path.Sector, L1 |-> path.L1, L2 |-> path.L2] :
       path \in PivotPaths, keycode \in SeqToSet(FactKeycodes),
       value \in {Null, Num(0), Num(100)}}

\* the fact tables of at most MaxPivotRows rows, in any order
PivotTables ==
    UNION {[1..n -> PivotRows] : n \in 0..MaxPivotRows}

-----------------------------------------------------------------------------
(* Inputs of the Earnings Surprises page *)

RankTickerNames == <<"ABC", "XYZ", "MNO", "PQR">>

RankTickers == SubSeq(RankTickerNames, 1, MaxRankTickers)

\* what a ticker reports: per metric code the values of 2023Q1, 2022Q4, 2022Q1
ReportProfiles ==
    {[Net_Revenue |-> <<Num(100), Num(80), Num(50)>>, NPATMI |-> <<Num(50), Num(25), Null>>],
     [Net_Revenue |-> <<Num(100), Num(80), Num(50)>>, NPATMI |-> <<Num(80), Num(40), Null>>],
     [Net_Revenue |-> <<Num(100), Num(50), Num(50)>>, NPATMI |-> <<Null, Null, Null>>],
     [Net_Revenue |-> <<Num(50), Num(80), Num(0)>>,   NPATMI |-> <<Num(0 - 120), Num(40), Null>>],
     [Net_Revenue |-> <<Null, Num(80), Num(50)>>,     NPATMI |-> <<Num(50), Null, Null>>],
     [Net_Revenue |-> <<Num(80), Null, Num(100)>>,    NPATMI |-> <<Null, Null, Null>>],
     [Net_Revenue |-> <<Null, Null, Null>>,           NPATMI |-> <<Null, Null, Null>>]}

RankPath(ticker) ==
    [Sector |-> "Tech", L1 |-> "Tech",
     L2 |-> IF ticker \in {"ABC", "MNO"} THEN "Software" ELSE "Hardware"]

\* the fact rows of the tickers: one row per reported value that is not null
ReportRows(profile) ==
    LET cell(i) == [t |-> ((i - 1) \div 6) + 1, k |-> (((i - 1) \div 3) % 2) + 1,
                    p |-> ((i - 1) % 3) + 1]
        value(i) == profile[RankTickers[cell(i).t]][FactKeycodes[cell(i).k]][cell(i).p]
        row(i) == [Ticker |-> RankTickers[cell(i).t], PERIOD |-> FactPeriods[cell(i).p],
                   KEYCODE |-> FactKeycodes[cell(i).k], VALUE |-> value(i),
                   Sector |-> RankPath(RankTickers[cell(i).t]).Sector,
                   L1 |-> RankPath(RankTickers[cell(i).t]).L1,
                   L2 |-> RankPath(RankTickers[cell(i).t]).L2]
        all == [i \in 1..(6 * Len(RankTickers)) |-> row(i)]
    IN SelectSeq(all, LAMBDA r : NotNa(r.VALUE))

RankTables == {ReportRows(profile) : profile \in [SeqToSet(RankTickers) -> ReportProfiles]}

RankSectorMap ==
    {[Ticker |-> RankTickers[i], Sector |-> RankPath(RankTickers[i]).Sector,
      L1 |-> RankPath(RankTickers[i]).L1, L2 |-> RankPath(RankTickers[i]).L2] :
       i \in 1..Len(RankTickers)}

\* the thresholds and list lengths the page is run with
MinBases == {0, 90}

TopNs == {1, 2, 5}

-----------------------------------------------------------------------------
(* Inputs of the period algebra *)

YearDigits == {"0", "1", "2", "3", "8", "9"}

QuarterChars == {"0", "1", "2", "3", "4", "5"}

YearStrings == {<<a, b, c, d>> : a \in YearDigits, b \in YearDigits,
                                 c \in YearDigits, d \in YearDigits}

IrregularPeriods ==
    {<<>>, <<"2", "3">>, <<"2", "0", "2", "3", "1">>, <<"2", "0", "2", "3", "Q">>,
     <<"Q", "1">>, <<"2", "0", "2", "3", "q", "1">>, <<"2", "0", "2", "3", "Q", "1", "0">>}

PeriodInputs ==
    YearStrings \cup {y \o <<"Q", q>> : y \in YearStrings, q \in QuarterChars}
                \cup IrregularPeriods

Frequencies == {"Quarterly", "Annual"}

\* the periods a list to sort holds beside the selected one
OtherPeriods ==
    IF frequency = "Quarterly" THEN {P2022Q4, P2022Q1}
    ELSE {<<"2", "0", "2", "2">>, <<"1", "9", "9", "9">>}

-----------------------------------------------------------------------------
(* State machine *)

\* get_engine has not been called
NoEngine ==
    /\ secrets = <<>>
    /\ candidate_urls = <<>>
    /\ url_index = 0
    /\ engine_log = <<>>
    /\ last_error = 0
    /\ engine_result = NoResult

\* before the Earnings Surprises page has run
NoPageResults ==
    /\ pivot_result = NoResult
    /\ min_base_value = 0
    /\ results_per_list = 0
    /\ combined_growth = NoResult
    /\ best = NoResult
    /\ worst = NoResult

\* before the further period operations have run
NoPeriodResults ==
    /\ unshifted = NoResult
    /\ reparsed = NoResult
    /\ period_list = <<>>
    /\ sorted_periods = NoResult

Init ==
    /\ raw_financials \in FactTables
    /\ sector_map \in SUBSET SectorMapRows
    /\ frequency = "Quarterly"
    /\ period = P2023Q1
    /\ level \in Levels
    /\ pc = "input"
    /\ comparison = NoResult
    /\ shift_offset = 0
    /\ shifted = NoResult
    /\ summary = NoResult
    /\ ticker_growth = NoResult
    /\ NoPeriodResults
    /\ NoPageResults
    /\ NoEngine

\* app.py main: the sector table of the selected frequency, period and level
SummariseBySector ==
    /\ pc = "input"
    /\ summary' = summarise_by_sector(raw_financials, sector_map, frequency, period, level)
    /\ pc' = "summarised"
    /\ UNCHANGED <<raw_financials, sector_map, frequency, period, level,
                   comparison, shift_offset, shifted, ticker_growth>>
    /\ UNCHANGED period_results
    /\ UNCHANGED page_results
    /\ UNCHANGED engine_state

\* pages/1_Earnings_Surprises.py main: the growth frame of every metric
ComputeTickerGrowth ==
    /\ pc = "input"
    /\ LET comparison_periods == determine_comparison_periods(frequency, period)
           pivoted == _pivot_financials(raw_financials)
       IN ticker_growth' =
            IF comparison_periods.raised # ""
            THEN [raised |-> comparison_periods.raised]
            ELSE [raised |-> "",
                  frames |-> [m \in MetricSet |->
                                _compute_ticker_growth(pivoted, m, period,
                                                       comparison_periods.previous,
                                                       comparison_periods.yoy)]]
    /\ pc' = "ranked"
    /\ UNCHANGED <<raw_financials, sector_map, frequency, period, level,
                   comparison, shift_offset, shifted, summary>>
    /\ UNCHANGED period_results
    /\ UNCHANGED page_results
    /\ UNCHANGED engine_state

Next == SummariseBySector \/ ComputeTickerGrowth

Spec == Init /\ [][Next]_vars

InitPeriod ==
    /\ raw_financials = <<>>
    /\ sector_map = {}
    /\ frequency \in Frequencies
    /\ period \in PeriodInputs
    /\ level = "L1"
    /\ pc = "input"
    /\ comparison = NoResult
    /\ shift_offset = 0
    /\ shifted = NoResult
    /\ summary = NoResult
    /\ ticker_growth = NoResult
    /\ NoPeriodResults
    /\ NoPageResults
    /\ NoEngine

DetermineComparisonPeriods ==
    /\ pc = "input"
    /\ comparison' = determine_comparison_periods(frequency, period)
    /\ pc' = "compared"
    /\ UNCHANGED <<raw_financials, sector_map, frequency, period, level,
                   shift_offset, shifted, summary, ticker_growth>>
    /\ UNCHANGED period_results
    /\ UNCHANGED page_results
    /\ UNCHANGED engine_state

ShiftPeriod ==
    /\ pc = "input"
    /\ \E offset \in (0 - MaxOffset)..MaxOffset :
         /\ shift_offset' = offset
         /\ shifted' = Shift(frequency, period, offset)
    /\ pc' = "shifted"
    /\ UNCHANGED <<raw_financials, sector_map, frequency, period, level,
                   comparison, summary, ticker_growth>>
    /\ UNCHANGED period_results
    /\ UNCHANGED page_results
    /\ UNCHANGED engine_state

\* the shifted period shifted back by the same offset
ShiftBack ==
    /\ pc = "shifted"
    /\ shifted.raised = ""
    /\ shifted.value # None
    /\ unshifted' = Shift(frequency, shifted.value, 0 - shift_offset)
    /\ pc' = "unshifted"
    /\ UNCHANGED <<raw_financials, sector_map, frequency, period, level,
                   comparison, shift_offset, shifted, summary, ticker_growth,
                   reparsed, period_list, sorted_periods>>
    /\ UNCHANGED page_results
    /\ UNCHANGED engine_state

\* the period parsed, formatted and parsed again
ReparsePeriod ==
    /\ pc = "input"
    /\ reparsed' = Reparse(frequency, period)
    /\ pc' = "reparsed"
    /\ UNCHANGED <<raw_financials, sector_map, frequency, period, level,
                   comparison, shift_offset, shifted, summary, ticker_growth,
                   unshifted, period_list, sorted_periods>>
    /\ UNCHANGED page_results
    /\ UNCHANGED engine_state

\* lists of periods holding the period: alone, or before or after another one
PeriodLists ==
    {<<period>>} \cup {<<period, x>> : x \in OtherPeriods}
                 \cup {<<x, period>> : x \in OtherPeriods}

SortPeriods ==
    /\ pc = "input"
    /\ \E periods \in PeriodLists, descending \in BOOLEAN :
         /\ period_list' = periods
         /\ sorted_periods' = sort_periods(periods, frequency, descending)
    /\ pc' = "sorted"
    /\ UNCHANGED <<raw_financials, sector_map, frequency, period, level,
                   comparison, shift_offset, shifted, summary, ticker_growth,
                   unshifted, reparsed>>
    /\ UNCHANGED page_results
    /\ UNCHANGED engine_state

NextPeriod ==
    DetermineComparisonPeriods \/ ShiftPeriod \/ ShiftBack \/ ReparsePeriod \/ SortPeriods

SpecPeriod == InitPeriod /\ [][NextPeriod]_vars

InitPivot ==
    /\ raw_financials \in PivotTables
    /\ sector_map = {}
    /\ frequency = "Quarterly"
    /\ period = P2023Q1
    /\ level = "L1"
    /\ pc = "input"
    /\ comparison = NoResult
    /\ shift_offset = 0
    /\ shifted = NoResult
    /\ summary = NoResult
    /\ ticker_growth = NoResult
    /\ NoPeriodResults
    /\ NoPageResults
    /\ NoEngine

PivotFinancials ==
    /\ pc = "input"
    /\ pivot_result' = [raised |-> "", value |-> _pivot_financials(raw_financials)]
    /\ pc' = "pivoted"
    /\ UNCHANGED <<raw_financials, sector_map, frequency, period, level,
                   comparison, shift_offset, shifted, summary, ticker_growth,
                   min_base_value, results_per_list, combined_growth, best, worst>>
    /\ UNCHANGED period_results
    /\ UNCHANGED engine_state

NextPivot == PivotFinancials

SpecPivot == InitPivot /\ [][NextPivot]_vars

InitRank ==
    /\ raw_financials \in RankTables
    /\ sector_map = RankSectorMap
    /\ frequency = "Quarterly"
    /\ period = P2023Q1
    /\ level = "L1"
    /\ pc = "input"
    /\ comparison = NoResult
    /\ shift_offset = 0
    /\ shifted = NoResult
    /\ summary = NoResult
    /\ ticker_growth = NoResult
    /\ NoPeriodResults
    /\ NoPageResults
    /\ NoEngine

\* pages/1_Earnings_Surprises.py main: the comparison periods, the pivot, the
\* growth frame of every metric, the combined frame and the two rank tables;
\* nothing is ranked without fact rows or without a non-empty growth frame
EarningsSurprises ==
    /\ pc = "input"
    /\ comparison' = determine_comparison_periods(frequency, period)
    /\ pivot_result' = [raised |-> "", value |-> _pivot_financials(raw_financials)]
    /\ LET frames == MetricFrames(pivot_result'.value, period, comparison'.previous,
                                  comparison'.yoy)
       IN ticker_growth' = [raised |-> "",
                            frames |-> [m \in MetricSet |-> frames[MetricIndex(m)]]]
    /\ LET frames == [k \in 1..Len(metric_labels) |-> ticker_growth'.frames[metric_labels[k]]]
       IN combined_growth' =
            [raised |-> "",
             shown |-> Len(raw_financials) > 0 /\ \E k \in 1..Len(frames) : Len(frames[k]) > 0,
             value |-> CombinedGrowth(frames, sector_map)]
    /\ \E base \in MinBases, n \in TopNs :
         /\ min_base_value' = base
         /\ results_per_list' = n
         /\ best' = [raised |-> "", shown |-> combined_growth'.shown,
                     value |-> IF combined_growth'.shown
                               THEN _prepare_rank_table(combined_growth'.value, n, FALSE, base)
                               ELSE <<>>]
         /\ worst' = [raised |-> "", shown |-> combined_growth'.shown,
                      value |-> IF combined_growth'.shown
                                THEN _prepare_rank_table(combined_growth'.value, n, TRUE, base)
                                ELSE <<>>]
    /\ pc' = "listed"
    /\ UNCHANGED <<raw_financials, sector_map, frequency, period, level,
                   shift_offset, shifted, summary>>
    /\ UNCHANGED period_results
    /\ UNCHANGED engine_state

NextRank == EarningsSurprises

SpecRank == InitRank /\ [][NextRank]_vars

-----------------------------------------------------------------------------
(* data_access.py: the database engine *)

\* A connection string is modelled by what the code reads of it: its form (a
\* SQLAlchemy URL, an ODBC string, or only whitespace), the ODBC driver it names
\* and whether it holds UID, PWD, DATABASE and SERVER.
MaxSecrets == 2

Driver18 == "{ODBC Driver 18 for SQL Server}"
Driver17 == "{ODBC Driver 17 for SQL Server}"

RawValues ==
    {[form |-> "blank", driver |-> "", creds |-> FALSE],
     [form |-> "url", driver |-> "", creds |-> FALSE],
     [form |-> "odbc", driver |-> Driver18, creds |-> TRUE],
     [form |-> "odbc", driver |-> Driver17, creds |-> TRUE],
     [form |-> "odbc", driver |-> Driver18, creds |-> FALSE]}

\* _enumerate_secret_values: the truthy values of the environment and of the
\* secrets; none, one or several, possibly the same value twice
SecretLists == UNION {[1..n -> RawValues] : n \in 0..MaxSecrets}

\* raw.strip()
Strip(raw) == IF raw.form = "blank" THEN <<>> ELSE <<raw>>

\* _standardise_sqlalchemy_url: a value starting with "mssql+" as it is, any
\* other value as the odbc_connect parameter of a mssql+pyodbc URL
_standardise_sqlalchemy_url(raw_value) ==
    IF raw_value.form = "url"
    THEN [scheme |-> "mssql+", raw |-> raw_value]
    ELSE [scheme |-> "mssql+pyodbc", raw |-> raw_value]

\* _augment_with_driver_fallbacks: the Driver 17 variant first, then the value
_augment_with_driver_fallbacks(raw_value) ==
    IF raw_value.driver = Driver18
    THEN <<[raw_value EXCEPT !.driver = Driver17], raw_value>>
    ELSE <<raw_value>>

\* _pymssql_url_from_odbc: a pymssql URL from the user, password, database and
\* server (the driver is not part of it); None without all four
_pymssql_url_from_odbc(raw_value) ==
    IF raw_value.creds
    THEN <<[scheme |-> "mssql+pymssql", raw |-> [raw_value EXCEPT !.driver = ""]]>>
    ELSE <<>>

\* urls.append(url) if url not in urls, for each url of a list
RECURSIVE AppendNew(_, _)
AppendNew(urls, more) ==
    IF more = <<>> THEN urls
    ELSE AppendNew(IF \E i \in 1..Len(urls) : urls[i] = more[1]
                   THEN urls ELSE Append(urls, more[1]),
                   Tail(more))

\* the loop of _get_candidate_database_urls over raw_candidates
RECURSIVE CandidateUrls(_, _)
CandidateUrls(urls, raw_candidates) ==
    IF raw_candidates = <<>> THEN urls
    ELSE LET stripped == Strip(raw_candidates[1])
         IN IF stripped = <<>>
            THEN CandidateUrls(urls, Tail(raw_candidates))
            ELSE LET raw == stripped[1]
                     options == _augment_with_driver_fallbacks(raw)
                     standard == [k \in 1..Len(options) |->
                                     _standardise_sqlalchemy_url(options[k])]
                 IN CandidateUrls(
                        AppendNew(AppendNew(urls, _pymssql_url_from_odbc(raw)), standard),
                        Tail(raw_candidates))

\* _get_candidate_database_urls
_get_candidate_database_urls(raw_candidates) ==
    IF raw_candidates = <<>>
    THEN [raised |-> "MissingDatabaseURL", value |-> <<>>]
    ELSE [raised |-> "", value |-> CandidateUrls(<<>>, raw_candidates)]

\* what get_engine does to an engine
LogEntry(op, i) == [op |-> op, url |-> i]

InitEngine ==
    /\ raw_financials = <<>>
    /\ sector_map = {}
    /\ frequency = "Quarterly"
    /\ period = P2023Q1
    /\ level = "L1"
    /\ pc = "input"
    /\ comparison = NoResult
    /\ shift_offset = 0
    /\ shifted = NoResult
    /\ summary = NoResult
    /\ ticker_growth = NoResult
    /\ NoPeriodResults
    /\ NoPageResults
    /\ secrets \in SecretLists
    /\ candidate_urls = <<>>
    /\ url_index = 0
    /\ engine_log = <<>>
    /\ last_error = 0
    /\ engine_result = NoResult

\* get_engine, its first statement: the candidate URLs, or MissingDatabaseURL
\* out of _get_candidate_database_urls
GetCandidateUrls ==
    /\ pc = "input"
    /\ LET urls == _get_candidate_database_urls(secrets)
       IN IF urls.raised # ""
          THEN /\ engine_result' = [raised |-> urls.raised, engine |-> 0, error |-> 0]
               /\ pc' = "raised"
               /\ UNCHANGED <<candidate_urls, url_index>>
          ELSE /\ candidate_urls' = urls.value
               /\ url_index' = 1
               /\ pc' = "loop"
               /\ UNCHANGED engine_result
    /\ UNCHANGED <<secrets, engine_log, last_error>>
    /\ UNCHANGED <<raw_financials, sector_map, frequency, period, level,
                   comparison, shift_offset, shifted, summary, ticker_growth>>
    /\ UNCHANGED period_results
    /\ UNCHANGED page_results

\* engine = create_engine(url), outside the try: an exception of create_engine
\* leaves get_engine at once
CreateEngine ==
    /\ pc = "loop"
    /\ url_index <= Len(candidate_urls)
    /\ \E created \in BOOLEAN :
         IF created
         THEN /\ engine_log' = Append(engine_log, LogEntry("create_engine", url_index))
              /\ pc' = "created"
              /\ UNCHANGED engine_result
         ELSE /\ engine_log' = Append(engine_log, LogEntry("create_engine raised", url_index))
              /\ engine_result' = [raised |-> "Exception", engine |-> 0, error |-> url_index]
              /\ pc' = "raised"
    /\ UNCHANGED <<secrets, candidate_urls, url_index, last_error>>
    /\ UNCHANGED <<raw_financials, sector_map, frequency, period, level,
                   comparison, shift_offset, shifted, summary, ticker_growth>>
    /\ UNCHANGED period_results
    /\ UNCHANGED page_results

\* the try block: the test connection; return engine when it succeeds,
\* last_error = err when it raises
TestConnection ==
    /\ pc = "created"
    /\ \E connected \in BOOLEAN :
         IF connected
         THEN /\ engine_log' = Append(engine_log, LogEntry("connect", url_index))
              /\ engine_result' = [raised |-> "", engine |-> url_index, error |-> 0]
              /\ pc' = "returned"
              /\ UNCHANGED last_error
         ELSE /\ engine_log' = Append(engine_log, LogEntry("connect raised", url_index))
              /\ last_error' = url_index
              /\ pc' = "failed"
              /\ UNCHANGED engine_result
    /\ UNCHANGED <<secrets, candidate_urls, url_index>>
    /\ UNCHANGED <<raw_financials, sector_map, frequency, period, level,
                   comparison, shift_offset, shifted, summary, ticker_growth>>
    /\ UNCHANGED period_results
    /\ UNCHANGED page_results

\* the except block without engine.dispose()
DisposeEngine_Skip ==
    /\ pc = "failed"
    /\ url_index' = url_index + 1
    /\ pc' = "loop"
    /\ UNCHANGED <<secrets, candidate_urls, last_error, engine_result, engine_log>>
    /\ UNCHANGED <<raw_financials, sector_map, frequency, period, level,
                   comparison, shift_offset, shifted, summary, ticker_growth>>
    /\ UNCHANGED period_results
    /\ UNCHANGED page_results

\* the except block: engine.dispose() and continue with the next URL
DisposeEngine ==
    /\ pc = "failed"
    /\ engine_log' = Append(engine_log, LogEntry("dispose", url_index))
    /\ url_index' = url_index + 1
    /\ pc' = "loop"
    /\ UNCHANGED <<secrets, candidate_urls, last_error, engine_result>>
    /\ UNCHANGED <<raw_financials, sector_map, frequency, period, level,
                   comparison, shift_offset, shifted, summary, ticker_growth>>
    /\ UNCHANGED period_results
    /\ UNCHANGED page_results

\* after the loop: raise last_error if there is one, else MissingDatabaseURL
RaiseLastError ==
    /\ pc = "loop"
    /\ url_index > Len(candidate_urls)
    /\ engine_result' = IF last_error # 0
                        THEN [raised |-> "Exception", engine |-> 0, error |-> last_error]
                        ELSE [raised |-> "MissingDatabaseURL", engine |-> 0, error |-> 0]
    /\ pc' = "raised"
    /\ UNCHANGED <<secrets, candidate_urls, url_index, engine_log, last_error>>
    /\ UNCHANGED <<raw_financials, sector_map, frequency, period, level,
                   comparison, shift_offset, shifted, summary, ticker_growth>>
    /\ UNCHANGED period_results
    /\ UNCHANGED page_results

NextEngine ==
    GetCandidateUrls \/ CreateEngine \/ TestConnection \/ DisposeEngine \/ RaiseLastError

SpecEngine == InitEngine /\ [][NextEngine]_vars

-----------------------------------------------------------------------------
(* What the claims expect, computed from the inputs *)

Summarised == pc = "summarised" /\ summary.raised = ""

Ranked == pc = "ranked" /\ ticker_growth.raised = ""

\* the sector rows of the returned table (the rows after the Total row)
SectorRows == SubSeq(summary.data, 2, Len(summary.data))

\* indices of the fact rows of a period, sector and metric that hold a value
ValueRows(p, label, m, tickers) ==
    {i \in 1..Len(raw_financials) :
       /\ raw_financials[i].PERIOD = p
       /\ raw_financials[i][level] = label
       /\ raw_financials[i].KEYCODE = KeycodeOf(m)
       /\ NotNa(raw_financials[i].VALUE)
       /\ raw_financials[i].Ticker \in tickers}

RECURSIVE SumOfRows(_)
SumOfRows(I) ==
    IF I = {} THEN 0
    ELSE LET i == CHOOSE x \in I : TRUE
         IN raw_financials[i].VALUE[1] + SumOfRows(I \ {i})

\* sum of the non-null values, null when there is none
ExpectedSum(p, label, m, tickers) ==
    IF ValueRows(p, label, m, tickers) = {} THEN Null
    ELSE Num(SumOfRows(ValueRows(p, label, m, tickers)))

\* tickers with at least one non-null tracked metric in the selected period
ExpectedReleased ==
    {raw_financials[i].Ticker :
       i \in {j \in 1..Len(raw_financials) :
                /\ raw_financials[j].PERIOD = period
                /\ raw_financials[j].KEYCODE \in SeqToSet(metric_keycodes)
                /\ NotNa(raw_financials[j].VALUE)}}

\* sector labels of a set of tickers among the fact rows of a period
LabelsOf(p, tickers) ==
    {raw_financials[i][level] :
       i \in {j \in 1..Len(raw_financials) :
                /\ raw_financials[j].PERIOD = p
                /\ NotNa(raw_financials[j].VALUE)
                /\ raw_financials[j].Ticker \in tickers}}

\* (current - comparison) / comparison, null for a null or zero comparison or a
\* null current value
ExpectedGrowth(current_value, comparison_value) ==
    IF IsNull(comparison_value) \/ comparison_value = Num(0) \/ IsNull(current_value)
    THEN Null
    ELSE <<current_value[1] - comparison_value[1], comparison_value[1]>>

\* the sum of a metric over the rows of a summary frame, null when all are null
FrameSum(frame, m) ==
    IF \A k \in 1..Len(frame) : IsNull(frame[k].metrics[m]) THEN Null
    ELSE Num(SumNotNa([k \in 1..Len(frame) |-> frame[k].metrics[m]]))

PreviousPeriod == P2022Q4
YoyPeriod == P2022Q1

-----------------------------------------------------------------------------
(* C1 *)

SectorGrowthGuarded ==
    \A k \in 1..Len(SectorRows) : \A m \in MetricSet :
       LET row == SectorRows[k]
           prev == ComparisonValue(summary.previous_summary, row.label, m)
           yoy == ComparisonValue(summary.yoy_summary, row.label, m)
       IN /\ row.QoQ[m] = ExpectedGrowth(row.metrics[m], prev)
          /\ row.YoY[m] = ExpectedGrowth(row.metrics[m], yoy)
          /\ IsFinite(row.QoQ[m]) /\ IsFinite(row.YoY[m])

TotalGrowthGuarded ==
    Len(summary.data) > 0 =>
      \A m \in MetricSet :
         LET row == summary.data[1]
         IN /\ row.QoQ[m] = ExpectedGrowth(row.metrics[m], FrameSum(summary.previous_summary, m))
            /\ row.YoY[m] = ExpectedGrowth(row.metrics[m], FrameSum(summary.yoy_summary, m))
            /\ IsFinite(row.QoQ[m]) /\ IsFinite(row.YoY[m])

TickerGrowthGuarded ==
    \A m \in MetricSet : \A i \in 1..Len(ticker_growth.frames[m]) :
       LET row == ticker_growth.frames[m][i]
       IN /\ row.qoq_growth = ExpectedGrowth(row.current_value, row.prev_value)
          /\ row.yoy_growth = ExpectedGrowth(row.current_value, row.yoy_value)
          /\ IsFinite(row.qoq_growth) /\ IsFinite(row.yoy_growth)

\* C1: sector, Total and ticker growth is null when the comparison value is null or
\* exactly 0 or the current value is null, and (current - comparison) / comparison
\* otherwise; no operation raises and no quotient has a zero divisor.
C1_GrowthGuarded ==
    /\ pc = "summarised" => summary.raised = "" /\ SectorGrowthGuarded /\ TotalGrowthGuarded
    /\ pc = "ranked" => ticker_growth.raised = "" /\ TickerGrowthGuarded

\* a sector whose comparison sum is exactly 0 next to one with a growth from a
\* non-zero comparison, and a metric whose current sum is null
C1_Witness ==
    /\ Summarised
    /\ \E k \in 1..Len(SectorRows) :
         /\ ComparisonValue(summary.previous_summary, SectorRows[k].label, "Revenue") = Num(0)
         /\ NotNa(SectorRows[k].metrics["Revenue"])
         /\ IsNull(SectorRows[k].QoQ["Revenue"])
         /\ NotNa(SectorRows[k].YoY["Revenue"])
         /\ IsNull(SectorRows[k].metrics["NPATMI"])

-----------------------------------------------------------------------------
(* C2 *)

\* tickers whose value of a metric is in the sum of a sector (label "Total": of
\* every sector) over the rows of a period that the code aggregates
Contributors(p, label, m) ==
    LET rows == PeriodRows(_pivot_financials(raw_financials), p, summary.released_tickers)
    IN {rows[i].Ticker :
          i \in {j \in 1..Len(rows) :
                   /\ label # "Total" => rows[j][level] = label
                   /\ NotNa(rows[j].metrics[m])}}

\* C2: whenever a sector's (or the Total's) QoQ or YoY growth of a metric is
\* returned, the current sum and the comparison sum it is computed from are sums
\* over the same set of tickers.
C2_SameCohort ==
    Summarised =>
      \A k \in 1..Len(summary.data) : \A m \in MetricSet :
         LET row == summary.data[k]
         IN /\ NotNa(row.QoQ[m]) =>
                 Contributors(period, row.label, m) = Contributors(PreviousPeriod, row.label, m)
            /\ NotNa(row.YoY[m]) =>
                 Contributors(period, row.label, m) = Contributors(YoyPeriod, row.label, m)

-----------------------------------------------------------------------------
(* C3 *)

SumsOf(frame, p) ==
    \A k \in 1..Len(frame) : \A m \in MetricSet :
       frame[k].metrics[m] = ExpectedSum(p, frame[k].label, m, summary.released_tickers)

\* C3: every sector sum of the current-period aggregate and of the two
\* _aggregate_period aggregates is the sum of the non-null values of the
\* contributing tickers, and null (not 0) when all of them are null.
C3_NullSafeSum ==
    Summarised =>
      /\ SumsOf(summary.current_summary, period)
      /\ SumsOf(summary.previous_summary, PreviousPeriod)
      /\ SumsOf(summary.yoy_summary, YoyPeriod)
      /\ \A k \in 1..Len(SectorRows) :
           SectorRows[k].metrics = summary.current_summary[k].metrics

\* a sector with two reporting tickers: one metric is summed over both, another
\* is null for both; the previous aggregate has a null sum too
C3_Witness ==
    /\ Summarised
    /\ \E k \in 1..Len(SectorRows) :
         /\ SectorRows[k].metrics["NPATMI"] = Num(200)
         /\ IsNull(SectorRows[k].metrics["Revenue"])
    /\ \E k \in 1..Len(summary.previous_summary) :
         /\ IsNull(summary.previous_summary[k].metrics["Revenue"])
         /\ NotNa(summary.previous_summary[k].metrics["NPATMI"])

-----------------------------------------------------------------------------
(* C4 *)

CohortSumsOf(frame, p) ==
    /\ {frame[k].label : k \in 1..Len(frame)} = LabelsOf(p, ExpectedReleased)
    /\ \A k \in 1..Len(frame) : \A m \in MetricSet :
          frame[k].metrics[m] = ExpectedSum(p, frame[k].label, m, ExpectedReleased)

\* C4: the previous-period and year-ago sector sums are sums over tickers of the
\* released cohort of the current period only: a ticker with data only in a
\* comparison period, or with all metrics null in the current period, adds
\* nothing to them.
C4_ComparisonWithinCohort ==
    Summarised /\ Len(summary.data) > 0 =>
      /\ CohortSumsOf(summary.previous_summary, PreviousPeriod)
      /\ CohortSumsOf(summary.yoy_summary, YoyPeriod)

\* one ticker is released and has a previous value; the other has a value in the
\* previous period only, in the same sector, and the previous sum leaves it out
C4_Witness ==
    /\ Summarised
    /\ level = "L1"
    /\ ExpectedReleased = {"ABC"}
    /\ \E i \in 1..Len(raw_financials) :
         /\ raw_financials[i].Ticker = "XYZ"
         /\ raw_financials[i].PERIOD = PreviousPeriod
         /\ raw_financials[i].KEYCODE = "Net_Revenue"
         /\ raw_financials[i].VALUE = Num(80)
    /\ Len(summary.previous_summary) = 1
    /\ summary.previous_summary[1].metrics["Revenue"] = Num(80)

-----------------------------------------------------------------------------
(* C5 *)

\* C5: released_count and each sector's released_companies count the distinct
\* tickers with at least one non-null tracked metric in the selected period; a
\* ticker whose metrics are all null there is not counted, gives no sector row
\* and adds to no sum.
C5_ReleasedCounts ==
    Summarised =>
      /\ summary.released_count = Cardinality(ExpectedReleased)
      /\ {SectorRows[k].label : k \in 1..Len(SectorRows)} = LabelsOf(period, ExpectedReleased)
      /\ \A k \in 1..Len(SectorRows) : \A m \in MetricSet :
           /\ SectorRows[k].released_companies =
                Num(Cardinality({t \in ExpectedReleased :
                                   \E i \in 1..Len(raw_financials) :
                                      /\ raw_financials[i].Ticker = t
                                      /\ raw_financials[i].PERIOD = period
                                      /\ raw_financials[i][level] = SectorRows[k].label}))
           /\ SectorRows[k].metrics[m] =
                ExpectedSum(period, SectorRows[k].label, m, ExpectedReleased)

\* a ticker with only a null value in the selected period next to a released one
C5_Witness ==
    /\ Summarised
    /\ level = "L2"
    /\ ExpectedReleased = {"ABC"}
    /\ \E i \in 1..Len(raw_financials) :
         /\ raw_financials[i].Ticker = "XYZ"
         /\ raw_financials[i].PERIOD = period
         /\ IsNull(raw_financials[i].VALUE)
    /\ Len(SectorRows) = 1
    /\ SectorRows[1].released_companies = Num(1)

-----------------------------------------------------------------------------
(* C6 *)

\* distinct tickers the sector map assigns to a sector
MapTickers(label) ==
    {r.Ticker : r \in {x \in sector_map : x[level] = label}} \ {NullName}

\* C6 as stated: total_companies of every sector row is the number of distinct
\* tickers the sector map assigns to the sector, coverage_pct is released_companies
\* / total_companies, and null when total_companies is 0.
C6_TotalFromSectorMap ==
    Summarised =>
      \A k \in 1..Len(SectorRows) :
         LET row == SectorRows[k]
             n == Cardinality(MapTickers(row.label))
         IN /\ row.total_companies = Num(n)
            /\ row.coverage_pct =
                 IF n = 0 THEN Null ELSE <<row.released_companies[1], n>>

\* C6 amended: total_companies is that number when the sector map has a row of the
\* sector and null when it has none; coverage_pct is released_companies /
\* total_companies, and null when total_companies is 0 or null.
C6_TotalFromSectorMapOrNull ==
    Summarised =>
      \A k \in 1..Len(SectorRows) :
         LET row == SectorRows[k]
             n == Cardinality(MapTickers(row.label))
         IN /\ row.total_companies =
                 IF \E r \in sector_map : r[level] = row.label THEN Num(n) ELSE Null
            /\ row.coverage_pct =
                 IF n = 0 THEN Null ELSE <<row.released_companies[1], n>>
            /\ IsFinite(row.coverage_pct)

\* a sector whose only sector-map row has no ticker (total_companies 0), next to a
\* sector with a coverage
C6_Witness ==
    /\ Summarised
    /\ \E k \in 1..Len(SectorRows) :
         /\ SectorRows[k].total_companies = Num(0)
         /\ IsNull(SectorRows[k].coverage_pct)
    /\ \E k \in 1..Len(SectorRows) :
         /\ SectorRows[k].total_companies = Num(1)
         /\ SectorRows[k].coverage_pct = <<1, 1>>

-----------------------------------------------------------------------------
(* C7 *)

\* C7: a non-empty table starts with the row labelled "Total"; its metrics are the
\* null-safe sums over the sector rows, its growths come from the across-sector
\* sums of the current and previous / year-ago aggregates with the null and zero
\* guard, released_companies is the number of released tickers and
\* total_companies the number of distinct tickers of the sector map.
C7_TotalRow ==
    Summarised /\ Len(summary.data) > 0 =>
      LET total == summary.data[1] IN
      /\ total.label = "Total"
      /\ \A k \in 1..Len(SectorRows) : SectorRows[k].label # "Total"
      /\ \A m \in MetricSet :
           /\ total.metrics[m] = FrameSum(SectorRows, m)
           /\ total.QoQ[m] = ExpectedGrowth(FrameSum(summary.current_summary, m),
                                            FrameSum(summary.previous_summary, m))
           /\ total.YoY[m] = ExpectedGrowth(FrameSum(summary.current_summary, m),
                                            FrameSum(summary.yoy_summary, m))
      /\ total.released_companies = Num(Cardinality(ExpectedReleased))
      /\ total.total_companies =
           Num(Cardinality({r.Ticker : r \in sector_map} \ {NullName}))

\* two sector rows under the Total row, which sums a metric over both and has a
\* growth
C7_Witness ==
    /\ Summarised
    /\ Len(SectorRows) = 2
    /\ summary.data[1].label = "Total"
    /\ summary.data[1].metrics["NPATMI"] = Num(200)
    /\ \E m \in MetricSet : NotNa(summary.data[1].QoQ[m])
    /\ summary.data[1].total_companies = Num(2)

-----------------------------------------------------------------------------
(* C8 *)

\* the facts and the sector map have rows, and all of them name one single sector
\* at the chosen level
SingleSector ==
    /\ Len(raw_financials) > 0
    /\ sector_map # {}
    /\ \E label \in {"Tech", "Software", "Hardware"} :
         /\ \A i \in 1..Len(raw_financials) : raw_financials[i][level] = label
         /\ \A r \in sector_map : r[level] = label

\* the Total row and the sector row agree in every column but the label
TwoIdenticalRows ==
    /\ Len(summary.data) = 2
    /\ [summary.data[1] EXCEPT !.label = summary.data[2].label] = summary.data[2]

\* one ticker ABC with Revenue 100 in 2023Q1, 80 in 2022Q4 and 50 in 2022Q1, in
\* sector Tech / L1 Tech / L2 Software, summarised at L1
Scenario ==
    /\ Len(raw_financials) = 3
    /\ \A i \in 1..3 : /\ raw_financials[i].Ticker = "ABC"
                       /\ raw_financials[i].KEYCODE = "Net_Revenue"
                       /\ raw_financials[i].VALUE = PeriodAmount(raw_financials[i].PERIOD)
    /\ {raw_financials[i].PERIOD : i \in 1..3} = {P2023Q1, P2022Q4, P2022Q1}
    /\ sector_map = {[Ticker |-> "ABC", Sector |-> "Tech", L1 |-> "Tech", L2 |-> "Software"]}
    /\ level = "L1"

ScenarioValues ==
    \A k \in 1..2 :
       LET row == summary.data[k] IN
       /\ row.metrics["Revenue"] = Num(100)
       /\ NotNa(row.QoQ["Revenue"]) /\ QuotEq(row.QoQ["Revenue"], <<25, 100>>)
       /\ NotNa(row.YoY["Revenue"]) /\ QuotEq(row.YoY["Revenue"], <<1, 1>>)
       /\ row.released_companies = Num(1)
       /\ row.total_companies = Num(1)
       /\ NotNa(row.coverage_pct) /\ QuotEq(row.coverage_pct, <<1, 1>>)

\* C8 as stated: with every ticker in one single sector the table has exactly two
\* rows, Total and the sector, identical in every column; the scenario gives
\* Revenue 100, QoQ 0.25, YoY 1.0, 1 released of 1, coverage 1.
C8_SingleSectorTwoRows ==
    Summarised /\ SingleSector =>
      /\ TwoIdenticalRows
      /\ Scenario => ScenarioValues

\* C8 amended: the same, provided some ticker has a non-null metric in the
\* selected period; when no ticker has one the table is empty.
C8_SingleSectorTwoRowsWhenReleased ==
    Summarised /\ SingleSector =>
      IF ExpectedReleased # {}
      THEN /\ TwoIdenticalRows
           /\ Scenario => ScenarioValues
      ELSE summary.data = <<>>

C8_Witness ==
    /\ Summarised
    /\ Scenario
    /\ Len(summary.data) = 2
    /\ summary.data[2].label = "Tech"
    /\ summary.data[2].QoQ["Revenue"] = <<20, 80>>

-----------------------------------------------------------------------------
(* C9 *)

NoRowOfPeriod == \A i \in 1..Len(raw_financials) : raw_financials[i].PERIOD # period

\* C9: without a fact row of the selected period summarise_by_sector does not
\* raise and returns an empty table, released_count 0 and total_count the number
\* of distinct tickers of the sector map.
C9_EmptyPeriod ==
    pc = "summarised" /\ NoRowOfPeriod =>
      /\ summary.raised = ""
      /\ summary.data = <<>>
      /\ summary.released_count = 0
      /\ summary.total_count = Cardinality({r.Ticker : r \in sector_map} \ {NullName})

\* facts of the comparison periods only, and a sector map with two tickers
C9_Witness ==
    /\ pc = "summarised"
    /\ NoRowOfPeriod
    /\ Len(raw_financials) > 0
    /\ summary.data = <<>>
    /\ summary.total_count = 2

-----------------------------------------------------------------------------
(* C10 *)

Compared == pc = "compared"

\* s is the quarterly period of this year and quarter
IsQuarter(s, year, quarter) ==
    /\ QuarterMatches(s)
    /\ ToInt(SubSeq(s, 1, 4)) = year
    /\ DigitVal(s[6]) = quarter

\* a pure 4-digit numeric string
YearMatches(p) == Len(p) = 4 /\ \A i \in 1..4 : IsDigit(p[i])

\* s is the annual period of this year
IsYear(s, year) == YearMatches(s) /\ ToInt(s) = year

PeriodYear == ToInt(SubSeq(period, 1, 4))

PeriodQuarter == DigitVal(period[6])

PrecedingQuarter ==
    /\ comparison.raised = ""
    /\ comparison.current = period
    /\ IF PeriodQuarter = 1
       THEN IsQuarter(comparison.previous, PeriodYear - 1, 4)
       ELSE IsQuarter(comparison.previous, PeriodYear, PeriodQuarter - 1)
    /\ IsQuarter(comparison.yoy, PeriodYear - 1, PeriodQuarter)

PrecedingYear ==
    /\ comparison.raised = ""
    /\ comparison.current = period
    /\ IsYear(comparison.previous, PeriodYear - 1)
    /\ IsYear(comparison.yoy, PeriodYear - 1)

\* C10 as stated: for every valid quarterly period previous is the immediately
\* preceding quarter and yoy the same quarter of the preceding year; for every
\* valid annual period previous and yoy are both the preceding year; current is
\* returned unchanged.
C10_ComparisonPeriods ==
    Compared =>
      /\ frequency = "Quarterly" /\ QuarterMatches(period) => PrecedingQuarter
      /\ frequency = "Annual" /\ YearMatches(period) => PrecedingYear

\* C10 amended: the same for every valid period of year 1901 or later; for a valid
\* period of year 1900 or earlier nothing is raised, current is unchanged, yoy is
\* None, and previous is None for an annual period and for a first quarter.
C10_ComparisonPeriodsFrom1901 ==
    Compared =>
      /\ frequency = "Quarterly" /\ QuarterMatches(period) =>
           IF PeriodYear > MinYear THEN PrecedingQuarter
           ELSE /\ comparison.raised = ""
                /\ comparison.current = period
                /\ comparison.yoy = None
                /\ PeriodQuarter = 1 => comparison.previous = None
      /\ frequency = "Annual" /\ YearMatches(period) =>
           IF PeriodYear > MinYear THEN PrecedingYear
           ELSE /\ comparison.raised = ""
                /\ comparison.current = period
                /\ comparison.yoy = None
                /\ comparison.previous = None

\* 2023Q1 gives 2022Q4 and 2022Q1
C10_Witness ==
    /\ Compared
    /\ frequency = "Quarterly"
    /\ period = P2023Q1
    /\ comparison.previous = P2022Q4
    /\ comparison.yoy = P2022Q1

-----------------------------------------------------------------------------
(* C11 *)

Shifted == pc = "shifted"

\* the period is valid for the frequency
ValidPeriod ==
    IF frequency = "Quarterly" THEN QuarterMatches(period) ELSE YearMatches(period)

\* quarters counted from year 0, less the offset
TargetIndex == PeriodYear * 4 + (PeriodQuarter - 1) - shift_offset

\* the year the shifted period falls in
TargetYear ==
    IF frequency = "Quarterly" THEN TargetIndex \div 4 ELSE PeriodYear - shift_offset

TargetQuarter == (TargetIndex % 4) + 1

\* s is the period string of the shifted period
IsTarget(s) ==
    IF frequency = "Quarterly" THEN IsQuarter(s, TargetYear, TargetQuarter)
    ELSE IsYear(s, TargetYear)

\* C11: for every valid period and offset the shift returns None when the shifted
\* period falls in a year below 1900 and the shifted period string otherwise; it
\* never returns a period of a year below 1900.
C11_ShiftNeverBelow1900 ==
    Shifted /\ ValidPeriod =>
      /\ shifted.raised = ""
      /\ IF TargetYear < MinYear THEN shifted.value = None
         ELSE IsTarget(shifted.value)

-----------------------------------------------------------------------------
(* C12 *)

Unshifted == pc = "unshifted"

\* the year and the quarter a returned period string names
ResultYear(s) ==
    IF frequency = "Quarterly" THEN ToInt(SubSeq(s, 1, Len(s) - 2)) ELSE ToInt(s)

ResultQuarter(s) == DigitVal(s[Len(s)])

\* a returned period of a four-digit year from 1900 on
IsPeriodFrom1900(s) ==
    /\ s # None
    /\ ResultYear(s) >= MinYear
    /\ ResultYear(s) <= 9999

\* C12: for every valid period P and offset k, when shift(P, k) and
\* shift(shift(P, k), -k) are both periods of a year from 1900 on, the second is
\* P; a returned quarterly period has the year and the quarter (1..4) that quarter
\* arithmetic with borrow and carry across the year boundary gives.
C12_ShiftRoundTrip ==
    Unshifted /\ ValidPeriod =>
      /\ frequency = "Quarterly" =>
           /\ ResultQuarter(shifted.value) \in 1..4
           /\ ResultQuarter(shifted.value) = TargetQuarter
           /\ ResultYear(shifted.value) = TargetYear
      /\ IsPeriodFrom1900(shifted.value) =>
           /\ unshifted.raised = ""
           /\ IsPeriodFrom1900(unshifted.value) => unshifted.value = period

\* 2023Q1 back by five quarters is 2021Q4 (borrow of two years), and forward by
\* five again is 2023Q1 (carry of two years)
C12_Witness ==
    /\ Unshifted
    /\ period = P2023Q1
    /\ shift_offset = 5
    /\ shifted.value = <<"2", "0", "2", "1", "Q", "4">>
    /\ unshifted.value = P2023Q1

-----------------------------------------------------------------------------
(* C13 *)

Reparsed == pc = "reparsed"

\* C13: for every valid quarterly period P, formatting the parsed (year, quarter)
\* and parsing the result again succeeds and gives the same (year, quarter).
C13_ParseFormatRoundTrip ==
    Reparsed /\ frequency = "Quarterly" /\ QuarterMatches(period) =>
      /\ reparsed.raised = ""
      /\ reparsed.year = PeriodYear
      /\ reparsed.quarter = PeriodQuarter

-----------------------------------------------------------------------------
(* C14 *)

Sorted == pc = "sorted"

\* C14: a string that does not match the exact pattern of its frequency (four
\* digits, "Q", a digit 1-4 for quarterly; exactly four digits for annual) makes
\* the parse, determine_comparison_periods and sort_periods raise.
C14_ParseRejects ==
    ~ValidPeriod =>
      /\ Reparsed => reparsed.raised # ""
      /\ Compared => comparison.raised # ""
      /\ Sorted => sorted_periods.raised # ""

-----------------------------------------------------------------------------
(* C15 *)

Pivoted == pc = "pivoted"

\* the input rows, by index, that have this key and this metric code
RowsOfKey(I, key, keycode) ==
    {i \in I : PivotKey(raw_financials[i]) = key /\ raw_financials[i].KEYCODE = keycode}

Least(I) == CHOOSE i \in I : \A j \in I : i <= j

\* the pivot has exactly one record per key of the input rows, holding for each
\* metric the value of the first row with the key and the metric code, and null
\* when there is none
PivotOfRows ==
    LET I == 1..Len(raw_financials)
        keys == {PivotKey(raw_financials[i]) : i \in I}
        rows == pivot_result.value
    IN /\ Len(rows) = Cardinality(keys)
       /\ {PivotKey(rows[k]) : k \in 1..Len(rows)} = keys
       /\ \A k \in 1..Len(rows), m \in MetricSet :
            LET hits == RowsOfKey(I, PivotKey(rows[k]), KeycodeOf(m))
            IN rows[k].metrics[m] =
                 IF hits = {} THEN Null ELSE raw_financials[Least(hits)].VALUE

\* C15 as stated: one record per distinct key present in the input rows; each
\* metric holds the value of the first-seen input row with that key and metric
\* code, and null when the key has no row of the metric.
C15_PivotFirstSeen ==
    Pivoted => PivotOfRows

-----------------------------------------------------------------------------
(* C16 *)

Listed == pc = "listed"

Axes == {[growth |-> "qoq_growth", rank |-> "qoq_rank"],
         [growth |-> "yoy_growth", rank |-> "yoy_rank"]}

\* the rows of a frame with a growth on the axis
Valid(frame, axis) == {j \in 1..Len(frame) : NotNa(frame[j][axis.growth])}

\* the ascending average rank of row i among the valid rows, over their number:
\* the rows with a lower growth, and half of the rows that tie with it and itself
AveragePctRank(frame, axis, i) ==
    LET lower == Cardinality({j \in Valid(frame, axis) :
                   QuotLess(frame[j][axis.growth], frame[i][axis.growth])})
        ties  == Cardinality({j \in Valid(frame, axis) :
                   QuotEq(frame[j][axis.growth], frame[i][axis.growth])})
    IN <<2 * lower + ties + 1, 2 * Cardinality(Valid(frame, axis))>>

\* the ranks of one axis of one frame
AxisRanked(frame, axis) ==
    /\ \A i \in 1..Len(frame) :
         IF IsNull(frame[i][axis.growth]) THEN IsNull(frame[i][axis.rank])
         ELSE /\ NotNa(frame[i][axis.rank])
              /\ QuotEq(frame[i][axis.rank], AveragePctRank(frame, axis, i))
              /\ QuotLess(<<0, 1>>, frame[i][axis.rank])
              /\ ~QuotLess(<<1, 1>>, frame[i][axis.rank])
    /\ \A i, j \in Valid(frame, axis) :
         QuotLess(frame[i][axis.growth], frame[j][axis.growth])
           => QuotLess(frame[i][axis.rank], frame[j][axis.rank])

\* the score of a row is the mean of the ranks it has
ScoreIsMean(r) ==
    IF IsNull(r.qoq_rank) /\ IsNull(r.yoy_rank) THEN IsNull(r.metric_score)
    ELSE /\ NotNa(r.metric_score)
         /\ IF IsNull(r.qoq_rank) THEN QuotEq(r.metric_score, r.yoy_rank)
            ELSE IF IsNull(r.yoy_rank) THEN QuotEq(r.metric_score, r.qoq_rank)
            ELSE QuotEq(<<2 * r.metric_score[1], r.metric_score[2]>>,
                        <<r.qoq_rank[1] * r.yoy_rank[2] + r.yoy_rank[1] * r.qoq_rank[2],
                          r.qoq_rank[2] * r.yoy_rank[2]>>)

\* C16: in every metric frame each growth axis is percentile-ranked on its own
\* among the tickers with a growth on the axis, ascending with the average rank
\* for ties, within (0, 1], so that a strictly higher growth has a strictly higher
\* rank; the metric score is the mean of the ranks a ticker has, and is null only
\* when it has none.
C16_PercentileRanks ==
    Listed =>
      \A m \in MetricSet :
        LET frame == ticker_growth.frames[m] IN
        /\ \A axis \in Axes : AxisRanked(frame, axis)
        /\ \A i \in 1..Len(frame) : ScoreIsMean(frame[i])

\* Revenue: ABC and XYZ tie on QoQ (0.25) and on YoY (1.0), MNO has a YoY growth
\* (-0.2) and no QoQ growth: the QoQ ranks are 0.75 and 0.75, the YoY ranks 5/6,
\* 5/6 and 1/3, and the score of MNO is its YoY rank
C16_Witness ==
    /\ Listed
    /\ LET frame == ticker_growth.frames["Revenue"] IN
       /\ Len(frame) = 3
       /\ \E a, x, o \in 1..3 :
            /\ frame[a].Ticker = "ABC" /\ frame[x].Ticker = "XYZ" /\ frame[o].Ticker = "MNO"
            /\ frame[a].qoq_rank = <<3, 4>> /\ frame[x].qoq_rank = <<3, 4>>
            /\ frame[o].qoq_rank = Null
            /\ frame[a].yoy_rank = <<5, 6>> /\ frame[x].yoy_rank = <<5, 6>>
            /\ frame[o].yoy_rank = <<2, 6>>
            /\ frame[o].metric_score = <<2, 6>>

-----------------------------------------------------------------------------
(* C17 *)

\* the tickers of a rank table
ListTickers(list) == {list.value[i].Ticker : i \in 1..Len(list.value)}

\* the values a ticker reports for the selected period
CurrentValues(ticker) ==
    {raw_financials[i].VALUE[1] :
       i \in {j \in 1..Len(raw_financials) :
                /\ raw_financials[j].Ticker = ticker
                /\ raw_financials[j].PERIOD = period
                /\ NotNa(raw_financials[j].VALUE)}}

\* the rows of a ticker in the combined frame
CombinedRows(ticker) ==
    {i \in 1..Len(combined_growth.value) : combined_growth.value[i].Ticker = ticker}

\* C17: neither list holds a ticker without a value in the selected period, a
\* ticker whose largest absolute current value is below min_base, or a ticker
\* whose combined score is null.
C17_RankFilters ==
    Listed =>
      \A ticker \in ListTickers(best) \cup ListTickers(worst) :
        /\ CurrentValues(ticker) # {}
        /\ \E v \in CurrentValues(ticker) : Abs(v) >= min_base_value
        /\ CombinedRows(ticker) # {}
        /\ \A i \in CombinedRows(ticker) : NotNa(combined_growth.value[i].combined_score)

\* with min_base 90: ABC (Revenue 50, NPATMI -120) is listed by its absolute
\* NPATMI, XYZ (Revenue 80) is below the base and MNO (no growth, so no score)
\* has a null combined score
C17_Witness ==
    /\ Listed
    /\ min_base_value = 90
    /\ Len(combined_growth.value) = 3
    /\ ListTickers(best) = {"ABC"}
    /\ ListTickers(worst) = {"ABC"}
    /\ best.value[1].NPATMI_bn = <<0 - 120, Billion>>
    /\ \E i \in CombinedRows("XYZ") :
         /\ combined_growth.value[i].base_value = Num(80)
         /\ NotNa(combined_growth.value[i].combined_score)
    /\ \E i \in CombinedRows("MNO") : IsNull(combined_growth.value[i].combined_score)

-----------------------------------------------------------------------------
(* C18 *)

\* the sort keys of a row of the combined frame, in the order of the sort
SortKeysOf(r) ==
    <<r.combined_score, r.base_value, r.current[MetricIndex("Revenue")],
      r.current[MetricIndex("NPATMI")]>>

\* key k of a comes before key k of b: the score in the direction of the list,
\* the other keys descending with a null last
KeyOrdered(a, b, k, ascending) ==
    IF k = 1 THEN (IF ascending THEN QuotLess(a[1], b[1]) ELSE QuotLess(b[1], a[1]))
    ELSE NotNa(a[k]) /\ (IsNull(b[k]) \/ b[k][1] < a[k][1])

KeyTied(a, b, k) ==
    IF k = 1 THEN QuotEq(a[1], b[1])
    ELSE (IsNull(a[k]) /\ IsNull(b[k])) \/ (NotNa(a[k]) /\ NotNa(b[k]) /\ a[k][1] = b[k][1])

\* row i of the combined frame comes before row j by the first n sort keys, and
\* by the order of the frame when these tie
ComesBefore(i, j, n, ascending) ==
    LET a == SortKeysOf(combined_growth.value[i])
        b == SortKeysOf(combined_growth.value[j])
    IN \/ \E k \in 1..n : /\ \A h \in 1..(k - 1) : KeyTied(a, b, h)
                          /\ KeyOrdered(a, b, k, ascending)
       \/ (\A h \in 1..n : KeyTied(a, b, h)) /\ i < j

\* the rows of the combined frame that pass the filters of the rank table
EligibleRows ==
    {i \in 1..Len(combined_growth.value) :
       LET r == combined_growth.value[i] IN
       /\ NotNa(r.base_value) /\ r.base_value[1] >= min_base_value
       /\ NotNa(r.combined_score)}

RowOfTicker(ticker) == CHOOSE i \in 1..Len(combined_growth.value) :
                         combined_growth.value[i].Ticker = ticker

\* the list is the first top_n eligible rows in the order of the first n keys
IsRanking(list, n, ascending) ==
    LET at(k) == RowOfTicker(list.value[k].Ticker)
        size == IF results_per_list < Cardinality(EligibleRows)
                THEN results_per_list ELSE Cardinality(EligibleRows)
    IN /\ Len(list.value) = size
       /\ \A k \in 1..Len(list.value) : at(k) \in EligibleRows
       /\ \A k \in 1..(Len(list.value) - 1) : ComesBefore(at(k), at(k + 1), n, ascending)
       /\ \A k \in 1..Len(list.value) :
            \A j \in EligibleRows \ {at(h) : h \in 1..Len(list.value)} :
              ComesBefore(at(k), j, n, ascending)

\* C18 as stated: best is ordered by combined score descending and worst
\* ascending, ties broken by base value descending, then by the raw current
\* value (Revenue) descending, then by input order; each list is the first top_n
\* rows of that order.
C18_RankOrder ==
    Listed /\ best.shown => IsRanking(best, 3, FALSE) /\ IsRanking(worst, 3, TRUE)

\* C18 amended: after the Revenue current value ties are broken by the NPATMI
\* current value descending (a null current value last), and only then by input
\* order.
C18_RankOrderFourKeys ==
    Listed /\ best.shown => IsRanking(best, 4, FALSE) /\ IsRanking(worst, 4, TRUE)

\* ABC and XYZ tie on the combined score, the base value (100) and Revenue (100);
\* ABC comes first in the frame but XYZ has the larger NPATMI (80 against 50), so
\* XYZ is the one row of both lists of length 1
C18_Witness ==
    /\ Listed
    /\ results_per_list = 1
    /\ Len(combined_growth.value) = 2
    /\ combined_growth.value[1].Ticker = "ABC"
    /\ combined_growth.value[2].Ticker = "XYZ"
    /\ \A i \in 1..2 : NotNa(combined_growth.value[i].combined_score)
    /\ \A h \in 1..3 : KeyTied(SortKeysOf(combined_growth.value[1]),
                               SortKeysOf(combined_growth.value[2]), h)
    /\ combined_growth.value[1].current[MetricIndex("NPATMI")] = Num(50)
    /\ combined_growth.value[2].current[MetricIndex("NPATMI")] = Num(80)
    /\ Len(best.value) = 1 /\ best.value[1].Ticker = "XYZ"
    /\ Len(worst.value) = 1 /\ worst.value[1].Ticker = "XYZ"

-----------------------------------------------------------------------------
(* C19 *)

\* get_engine has returned or raised
EngineDone == pc \in {"returned", "raised"}

LogPositions == 1..Len(engine_log)

\* the candidates get_engine has made an attempt with
Attempted == {engine_log[k].url : k \in LogPositions}

AttemptFailed(i) ==
    \E k \in LogPositions :
        engine_log[k] \in {LogEntry("create_engine raised", i), LogEntry("connect raised", i)}

AttemptSucceeded(i) == \E k \in LogPositions : engine_log[k] = LogEntry("connect", i)

StartsAttempt(k) == engine_log[k].op \in {"create_engine", "create_engine raised"}

\* the attempts are made with the candidates 1, 2, ... in this order, one
\* attempt each, and one attempt is over before the next begins
OneAtATimeInOrder ==
    /\ Attempted \subseteq 1..Len(candidate_urls)
    /\ \A i \in Attempted : \A j \in 1..i : j \in Attempted
    /\ \A k, l \in LogPositions : k < l => engine_log[k].url <= engine_log[l].url
    /\ \A k, l \in LogPositions :
           StartsAttempt(k) /\ StartsAttempt(l) /\ engine_log[k].url = engine_log[l].url
               => k = l

\* an engine whose test connection failed is disposed before the next attempt
DisposedBeforeNext ==
    \A k, l \in LogPositions :
        engine_log[k].op = "connect raised" /\ k < l /\ StartsAttempt(l)
            => \E m \in (k + 1)..(l - 1) : engine_log[m] = LogEntry("dispose", engine_log[k].url)

\* the returned engine is that of the first candidate whose test connection
\* succeeded; every earlier attempt failed and no later one was made
ReturnsFirstSuccess ==
    /\ \A i \in Attempted : AttemptSucceeded(i) =>
           pc = "returned" /\ engine_result.raised = "" /\ engine_result.engine = i
    /\ pc = "returned" =>
           /\ engine_result.raised = ""
           /\ AttemptSucceeded(engine_result.engine)
           /\ Attempted = 1..engine_result.engine
           /\ \A j \in 1..(engine_result.engine - 1) : AttemptFailed(j) /\ ~AttemptSucceeded(j)

\* when every attempt has failed the exception raised is that of the last
\* attempt; attempts go on to the last candidate as long as the failure is one
\* of the test connection
RaisesLastException ==
    pc = "raised" /\ Attempted # {} =>
        /\ \A i \in Attempted : AttemptFailed(i)
        /\ engine_result.raised = "Exception"
        /\ engine_result.error \in Attempted
        /\ \A i \in Attempted : i <= engine_result.error
        /\ LogEntry("connect raised", engine_result.error) \in
               {engine_log[k] : k \in LogPositions}
             => engine_result.error = Len(candidate_urls)

\* without a configured connection string: MissingDatabaseURL and no attempt
MissingWithoutAttempt ==
    secrets = <<>> /\ pc # "input" =>
        /\ pc = "raised"
        /\ engine_result.raised = "MissingDatabaseURL"
        /\ engine_log = <<>>

-----------------------------------------------------------------------------
(* C20 *)

\* every fact row's ticker has a Sector_Map row with the fact row's label at the
\* selected level
FactsInSectorMap ==
    \A i \in 1..Len(raw_financials) :
        \E r \in sector_map :
            /\ r.Ticker = raw_financials[i].Ticker
            /\ r[level] = raw_financials[i][level]

RECURSIVE SumReleased(_)
SumReleased(rows) ==
    IF rows = <<>> THEN 0
    ELSE rows[1].released_companies[1] + SumReleased(Tail(rows))

\* a quotient n / d that lies in [0, 1]
InUnitInterval(q) ==
    /\ Len(q) = 2
    /\ q[2] # 0
    /\ IF q[2] > 0 THEN 0 <= q[1] /\ q[1] <= q[2] ELSE q[2] <= q[1] /\ q[1] <= 0

\* C20: when every ticker of the facts is in the sector map with the same label
\* at the selected level, every returned row (sector rows and Total row) has
\* released_companies <= total_companies and a coverage_pct in [0, 1], and the
\* released_companies of the sector rows add up to the Total row's
\* released_companies and to the returned released_count.
C20_CoverageCounts ==
    Summarised /\ FactsInSectorMap =>
      /\ \A k \in 1..Len(summary.data) :
           /\ NotNa(summary.data[k].released_companies)
           /\ NotNa(summary.data[k].total_companies)
           /\ summary.data[k].released_companies[1] <= summary.data[k].total_companies[1]
           /\ InUnitInterval(summary.data[k].coverage_pct)
      /\ Len(summary.data) > 0 =>
           /\ summary.data[1].label = "Total"
           /\ SumReleased(SectorRows) = summary.data[1].released_companies[1]
           /\ SumReleased(SectorRows) = summary.released_count
      /\ Len(summary.data) = 0 => summary.released_count = 0

\* the map holds ABC (Software) and XYZ (Hardware) and only ABC has released:
\* one sector row with 1 of 1 and a Total row with 1 of 2
C20_Witness ==
    /\ Summarised
    /\ FactsInSectorMap
    /\ level = "L2"
    /\ {r.Ticker : r \in sector_map} = {"ABC", "XYZ"}
    /\ Len(SectorRows) = 1
    /\ SectorRows[1].label = "Software"
    /\ SectorRows[1].released_companies = Num(1)
    /\ SectorRows[1].total_companies = Num(1)
    /\ summary.data[1].released_companies = Num(1)
    /\ summary.data[1].total_companies = Num(2)
    /\ summary.data[1].coverage_pct = <<1, 2>>
    /\ summary.released_count = 1

====
